---- MODULE Spec2Model ----
(***************************************************************************)
(* A model of the Hexxagon engine (H1W0XXX/hexxagon): the board with its   *)
(* incremental make/unmake, move generation, the heuristic move filters,   *)
(* the alpha-beta search with its transposition table, the static          *)
(* evaluators and the game state machine.                                  *)
(*                                                                         *)
(* Representation choices:                                                 *)
(*   - a 64-bit bitboard is the set of its set bit positions;              *)
(*   - a Zobrist hash is an element of the free GF(2) vector space over    *)
(*     the random keys: the set of keys XORed an odd number of times;      *)
(*     XOR is the symmetric difference.  zobristCell[i][Blocked] = 0 is    *)
(*     the empty set.  Two hashes equal here are equal for every choice    *)
(*     of the random keys.                                                 *)
(***************************************************************************)
EXTENDS Integers, Sequences, FiniteSets, TLC

\* ------------------------------------------------------------------------
\* Bounds of the model (not program constants)
\* ------------------------------------------------------------------------
\* plies GameState.MakeMove is explored to, by every legal move
MaxPlies == 2
\* nesting of mMakeMoveWithUndo on the board before UnmakeMove
MaxSearchDepth == 1
\* make/unmake descents (searches, previews) started on one board
MaxDescents == 1
\* plies of the games whose boards the pure functions are applied to
PurePlies == 1
\* plies of the games whose boards are searched, depth of the searches, and
\* searches run on one table
SearchPlies == 1
MaxABDepth == 1
MaxSearches == 2
\* workers of the concurrent table accesses, and calls each of them makes
TTWriters == 2
TTReaders == 1
TTCalls == 1
MaxClears == 1
\* calls of storeTT around the calls of ClearTT
ClearStores == 2
\* the workers of a root search, and the depths a root search is called with
RootWorkers == 2
MaxRootDepth == 1

\* the self-play runs: at most SpWorkers game workers, SpGames games and
\* MaxChunk samples in a chunk; a game gives MinBatch..MaxBatch samples (the
\* lengths stand for the 20..400 of playOneGame)
SpWorkers == 2
SpGames == 4
MaxChunk == 2
MinBatch == 1
MaxBatch == 2
\* calls of GameState.MakeMove with a move that was not checked
AnyPlies == 1
\* passes of the loop of the Monte-Carlo tree search
MaxSims == 5
\* sims of the searches of playOneGame, and the numbers rand.Intn returns
\* in its opening
MaxGameSims == 1

\* the boards the pool of board.go is let keep
MaxPool == 1
OpeningPicks == 3

\* ------------------------------------------------------------------------
\* board.go: cell states, geometry, index tables
\* ------------------------------------------------------------------------
Empty == 0
Blocked == 1
PlayerA == 2
PlayerB == 3
Players == {PlayerA, PlayerB}

boardRadius == 4
BoardN == 1 + 3 * boardRadius * (boardRadius + 1)

abs(x) == IF x < 0 THEN -x ELSE x

max3(a, b, c) ==
  LET a1 == IF a < b THEN b ELSE a
  IN IF a1 < c THEN c ELSE a1

Directions == << <<1, 0>>, <<1, -1>>, <<0, -1>>, <<-1, 0>>, <<-1, 1>>, <<0, 1>> >>

cloneDirs == << <<1, 0>>, <<1, -1>>, <<0, -1>>, <<-1, 0>>, <<-1, 1>>, <<0, 1>> >>

jumpDirs ==
  << <<2, 0>>, <<2, -1>>, <<2, -2>>, <<1, -2>>, <<0, -2>>, <<-1, -1>>,
     <<-2, 0>>, <<-2, 1>>, <<-2, 2>>, <<-1, 2>>, <<0, 2>>, <<1, 1>> >>

Add(h, o) == <<h[1] + o[1], h[2] + o[2]>>

\* init() of board.go: q outer, r inner, kept when |q|+|r|+|q+r| <= 2*radius
Coords ==
  LET side == 2 * boardRadius + 1
      all == [k \in 1..(side * side) |->
                <<((k - 1) \div side) - boardRadius, ((k - 1) % side) - boardRadius>>]
      in(c) == abs(c[1]) + abs(c[2]) + abs(-c[1] - c[2]) <= 2 * boardRadius
  IN SelectSeq(all, in)

Cellx == 0..(BoardN - 1)

CoordOf == [i \in Cellx |-> Coords[i + 1]]

CoordSet == {CoordOf[i] : i \in Cellx}

IndexOf == [c \in CoordSet |-> CHOOSE i \in Cellx : CoordOf[i] = c]

\* the "ok" of a lookup IndexOf[c]
InIndex(c) == c \in CoordSet

\* the in-bounds targets of c + d for d in dirs, in the order of dirs
TableOf(i, dirs) ==
  LET cs == [k \in 1..Len(dirs) |-> Add(CoordOf[i], dirs[k])]
      ok == SelectSeq(cs, InIndex)
  IN [k \in 1..Len(ok) |-> IndexOf[ok[k]]]

NeighI == [i \in Cellx |-> TableOf(i, Directions)]

JumpI == [i \in Cellx |-> TableOf(i, jumpDirs)]

isOuterI ==
  [i \in Cellx |->
     LET c == CoordOf[i]
     IN abs(c[1]) = boardRadius \/ abs(c[2]) = boardRadius
          \/ abs(-c[1] - c[2]) = boardRadius]

Range(s) == {s[k] : k \in 1..Len(s)}

\* Ready(v) holds once the value v has been computed.  A loop over the
\* indices lo..hi is evaluated half by half, and the second half starts
\* when the state the first half left is ready; a step that works on the
\* result of the step before it starts when that result is ready.
Ready(v) == v = v

isNeighborI(a, b) == b \in Range(NeighI[a])

Opponent(player) ==
  CASE player = PlayerA -> PlayerB
    [] player = PlayerB -> PlayerA
    [] OTHER -> Empty

HexDist(a, b) ==
  LET dq == a[1] - b[1]
      dr == a[2] - b[2]
  IN max3(abs(dq), abs(dr), abs(dq + dr))

\* ------------------------------------------------------------------------
\* move.go: Move and its kind
\* ------------------------------------------------------------------------
Mv(from, to) == [From |-> from, To |-> to]

\* the zero value Move{}
NoMove == Mv(<<0, 0>>, <<0, 0>>)

\* move_delta.go: the 9 x 9 grid of the policy
GridSize == 9

AxialToIndex(c) == (c[2] + 4) * GridSize + (c[1] + 4)

IsClone(m) ==
  LET d == <<m.To[1] - m.From[1], m.To[2] - m.From[2]>>
  IN \E k \in 1..Len(cloneDirs) : cloneDirs[k] = d

IsJump(m) ==
  LET d == <<m.To[1] - m.From[1], m.To[2] - m.From[2]>>
  IN \E k \in 1..Len(jumpDirs) : jumpDirs[k] = d

\* ------------------------------------------------------------------------
\* tt.go: Zobrist keys
\* ------------------------------------------------------------------------
\* The XOR of two 64-bit words, each the set of the keys XORed into it.
\* The sets are built by enumeration, element by element.
Xor(h, k) == UNION {{x \in h : x \notin k}, {x \in k : x \notin h}}

\* m &^ (1 << i) and m | (1 << i) on a bitboard, the set of its bits
bitClear(m, i) == {x \in m : x # i}

bitSet(m, i) == {x \in Cellx : x \in m \/ x = i}

\* zobristCell[i][s]: a fresh random key, except Blocked, which is 0
zobKeyI(i, s) == IF s = Blocked THEN {} ELSE {<<i, s>>}

sideIdx(p) == IF p = PlayerB THEN 1 ELSE 0

\* zobristSide[k]
zobristSide(k) == {<<-1, k>>}

\* ------------------------------------------------------------------------
\* board.go: Board
\* ------------------------------------------------------------------------
\* Board.Get: the cell at coordinate c, Blocked off the board
Get(b, c) == IF InIndex(c) THEN b.Cells[IndexOf[c]] ELSE Blocked

NewBoard ==
  [Cells |-> [i \in Cellx |-> Empty], hash |-> {}, bitA |-> {}, bitB |-> {},
   LastMove |-> NoMove, LastMover |-> Empty, LastInfect |-> 0]

\* Board.setI: hash kept in step with the cell; the bitboards are not touched
setI(b, i, s) ==
  LET prev == b.Cells[i]
  IN IF prev = s THEN b
     ELSE [b EXCEPT !.hash = Xor(Xor(@, zobKeyI(i, prev)), zobKeyI(i, s)),
                    !.Cells[i] = s]

CountPieces(b, pl) == Cardinality({i \in Cellx : b.Cells[i] = pl})

\* ------------------------------------------------------------------------
\* move_delta.go: Move.MakeMove / Board.UnmakeMove
\* ------------------------------------------------------------------------
\* the zero value undoInfo{}
NoUndo ==
  [changed |-> <<>>, prevLastMove |-> NoMove, prevLastMover |-> Empty,
   prevLastInfect |-> 0]

\* the setI closure of Move.MakeMove: records the change, then keeps hash and
\* bitboards in step.  st = [b, changed]
mmSetI(st, i, s) ==
  LET b == st.b
      prev == b.Cells[i]
      a1 == IF prev = PlayerA THEN bitClear(b.bitA, i) ELSE b.bitA
      b1 == IF prev = PlayerB THEN bitClear(b.bitB, i) ELSE b.bitB
      a2 == IF s = PlayerA THEN bitSet(a1, i) ELSE a1
      b2 == IF s = PlayerB THEN bitSet(b1, i) ELSE b1
  IN IF prev = s THEN st
     ELSE [b |-> [b EXCEPT !.hash = Xor(Xor(@, zobKeyI(i, prev)), zobKeyI(i, s)),
                           !.Cells[i] = s, !.bitA = a2, !.bitB = b2],
           changed |-> Append(st.changed, [idx |-> i, prev |-> prev])]

\* mutation of mmInfect: the infection loop is left out
mmInfectNone(st, to, player, k) == st

\* step 3 of Move.MakeMove: the loop over NeighI[to] from position k.
\* st = [b, changed, infected]
RECURSIVE mmInfect(_, _, _, _)
mmInfect(st, to, player, k) ==
  IF k > Len(NeighI[to]) THEN st
  ELSE LET nb == NeighI[to][k]
       IN IF st.b.Cells[nb] = Opponent(player)
          THEN mmInfect([infected |-> Append(st.infected, CoordOf[nb])] @@
                          mmSetI([b |-> st.b, changed |-> st.changed], nb, player),
                        to, player, k + 1)
          ELSE mmInfect(st, to, player, k + 1)

\* the results of Move.MakeMove.  The undo it returns holds the changed cells
\* only: prevLastMove, prevLastMover and prevLastInfect stay zero.
mmResult(s3) ==
  [b |-> s3.b, infected |-> s3.infected, undo |-> [NoUndo EXCEPT !.changed = s3.changed]]

\* step 3 of Move.MakeMove, s2 being the state after step 2
mmPlaced(s2, to, player) ==
  mmResult(mmInfect([b |-> s2.b, changed |-> s2.changed, infected |-> <<>>],
                    to, player, 1))

\* steps 2 and 3 of Move.MakeMove, s1 being the state after step 1
mmPlace(s1, to, player) == mmPlaced(mmSetI(s1, to, player), to, player)

\* Move.MakeMove: [b, infected, undo]
MakeMove(m, b, player) ==
  IF ~InIndex(m.To) \/ ~InIndex(m.From)
  THEN [b |-> [b EXCEPT !.LastMove = m], infected |-> <<>>, undo |-> NoUndo]
  ELSE mmPlace(IF IsJump(m)
               THEN mmSetI([b |-> [b EXCEPT !.LastMove = m], changed |-> <<>>],
                           IndexOf[m.From], Empty)
               ELSE [b |-> [b EXCEPT !.LastMove = m], changed |-> <<>>],
               IndexOf[m.To], player)

\* the loop of Board.UnmakeMove, from entry k down to 1
RECURSIVE umRestore(_, _, _)
umRestore(b, changed, k) ==
  IF k < 1 THEN b
  ELSE LET ch == changed[k]
           cur == b.Cells[ch.idx]
           a1 == IF cur = PlayerA THEN bitClear(b.bitA, ch.idx) ELSE b.bitA
           b1 == IF cur = PlayerB THEN bitClear(b.bitB, ch.idx) ELSE b.bitB
           a2 == IF ch.prev = PlayerA THEN bitSet(a1, ch.idx) ELSE a1
           b2 == IF ch.prev = PlayerB THEN bitSet(b1, ch.idx) ELSE b1
       IN IF cur = ch.prev THEN umRestore(b, changed, k - 1)
          ELSE umRestore(
                 [b EXCEPT !.hash = Xor(Xor(@, zobKeyI(ch.idx, cur)),
                                        zobKeyI(ch.idx, ch.prev)),
                           !.Cells[ch.idx] = ch.prev, !.bitA = a2, !.bitB = b2],
                 changed, k - 1)

UnmakeMove(b, u) ==
  umRestore([b EXCEPT !.LastMove = u.prevLastMove, !.LastMover = u.prevLastMover,
                      !.LastInfect = u.prevLastInfect],
            u.changed, Len(u.changed))

\* ai.go: mMakeMoveWithUndo: [b, undo], r being what Move.MakeMove returned
mmwuResult(b, player, r) ==
  [b |-> [r.b EXCEPT !.LastMover = player, !.LastInfect = Len(r.infected)],
   undo |-> [changed |-> r.undo.changed, prevLastMove |-> b.LastMove,
             prevLastMover |-> b.LastMover, prevLastInfect |-> b.LastInfect]]

mMakeMoveWithUndo(b, mv, player) ==
  mmwuResult(b, player, MakeMove(mv, [b EXCEPT !.LastMove = mv], player))

\* evaluate.go: Move.ApplyPreview: [b, infected], r being what Move.MakeMove
\* returned
apResult(r) == [b |-> UnmakeMove(r.b, r.undo), infected |-> Len(r.infected)]

ApplyPreview(m, b, player) == apResult(MakeMove(m, b, player))

\* board.go: the infection loop of Board.applyMove from position k.
\* st = [b, infected]
RECURSIVE amInfect(_, _, _, _)
amInfect(st, to, player, k) ==
  IF k > Len(NeighI[to]) THEN st
  ELSE LET j == NeighI[to][k]
       IN IF st.b.Cells[j] = Opponent(player)
          THEN amInfect([b |-> setI(st.b, j, player), infected |-> st.infected + 1],
                        to, player, k + 1)
          ELSE amInfect(st, to, player, k + 1)

\* Board.applyMove (its setI closure is Board.setI plus a change list that
\* ApplyMove drops): [b, infected]
applyMove(b, m, player) ==
  IF ~InIndex(m.To) THEN [b |-> b, infected |-> 0]
  ELSE amInfect([b |-> IF IsClone(m) THEN setI(b, IndexOf[m.To], player)
                       ELSE setI(IF InIndex(m.From) THEN setI(b, IndexOf[m.From], Empty)
                                 ELSE b,
                                 IndexOf[m.To], player),
                 infected |-> 0],
                IndexOf[m.To], player, 1)

amResult(r, m, player) ==
  [r.b EXCEPT !.LastMove = m, !.LastMover = player, !.LastInfect = r.infected]

ApplyMove(b, m, player) == amResult(applyMove(b, m, player), m, player)

\* ------------------------------------------------------------------------
\* move.go: GenerateMoves
\* ------------------------------------------------------------------------
\* the moves from cell i to the Empty cells of table[i], in table order
MovesTo(i, tos) == [k \in 1..Len(tos) |-> Mv(CoordOf[i], CoordOf[tos[k]])]

\* mutation of MovesVia: the test that the target is Empty is left out
MovesViaAny(b, i, table) == MovesTo(i, table[i])

MovesVia(b, i, table) ==
  MovesTo(i, SelectSeq(table[i], LAMBDA to : b.Cells[to] = Empty))

\* the body of the loop of GenerateMoves for cell i
gmCell(b, player, i) ==
  IF b.Cells[i] # player THEN <<>>
  ELSE MovesVia(b, i, NeighI) \o MovesVia(b, i, JumpI)

\* the loop of GenerateMoves over the cells lo..hi, in order
RECURSIVE gmFrom(_, _, _, _)
gmFrom(b, player, lo, hi) ==
  IF lo > hi THEN <<>>
  ELSE IF lo = hi THEN gmCell(b, player, lo)
  ELSE gmFrom(b, player, lo, (lo + hi) \div 2)
         \o gmFrom(b, player, (lo + hi) \div 2 + 1, hi)

GenerateMoves(b, player) == gmFrom(b, player, 0, BoardN - 1)

\* ------------------------------------------------------------------------
\* game_state.go: GameState
\* ------------------------------------------------------------------------
\* Board.setI applied to the cells of the sequence cells, from position k
RECURSIVE SetAll(_, _, _, _)
SetAll(b, cells, s, k) ==
  IF k > Len(cells) THEN b
  ELSE SetAll(setI(b, cells[k], s), cells, s, k + 1)

cornersA == << <<boardRadius, 0>>, <<0, -boardRadius>>, <<-boardRadius, boardRadius>> >>

cornersB == << <<-boardRadius, 0>>, <<0, boardRadius>>, <<boardRadius, -boardRadius>> >>

centerBlocks == << <<1, 0>>, <<-1, 1>>, <<0, -1>> >>

\* the indices of the coordinates of cs that are on the board
IdxOfOk(ok) == [k \in 1..Len(ok) |-> IndexOf[ok[k]]]

IdxSeq(cs) == IdxOfOk(SelectSeq(cs, InIndex))

\* GameState.updateScores: [a, b]
updateScores(b) == [a |-> CountPieces(b, PlayerA), b |-> CountPieces(b, PlayerB)]

\* the GameState NewGameState returns, b being the board with its pieces
\* and blocks placed: the key of the side to move is XORed into the hash
ngsResult(b) ==
  [Board |-> [b EXCEPT !.hash = Xor(@, zobristSide(sideIdx(PlayerA)))],
   CurrentPlayer |-> PlayerA,
   ScoreA |-> CountPieces(b, PlayerA), ScoreB |-> CountPieces(b, PlayerB),
   GameOver |-> FALSE, Winner |-> Empty]

NewGameState ==
  ngsResult(SetAll(SetAll(SetAll(NewBoard, IdxSeq(cornersA), PlayerA, 1),
                          IdxSeq(cornersB), PlayerB, 1),
                   IdxSeq(centerBlocks), Blocked, 1))

\* mutation of claimAllEmpty: the Empty cells are left as they are
claimNoEmpty(b, to) == b

\* mutation of caeCell: the Blocked cells are claimed too
caeCellAny(b, to, i) == IF b.Cells[i] \in {Empty, Blocked} THEN setI(b, i, to) ELSE b

\* the body of the loop of GameState.claimAllEmpty for cell i
caeCell(b, to, i) == IF b.Cells[i] = Empty THEN setI(b, i, to) ELSE b

\* the loop of GameState.claimAllEmpty over the cells lo..hi, in order
RECURSIVE caeRange(_, _, _, _)
caeRange(b, to, lo, hi) ==
  IF lo > hi \/ ~Ready(b) THEN b
  ELSE IF lo = hi THEN caeCell(b, to, lo)
  ELSE caeRange(caeRange(b, to, lo, (lo + hi) \div 2), to, (lo + hi) \div 2 + 1, hi)

claimAllEmpty(b, to) == caeRange(b, to, 0, BoardN - 1)

\* the breadth-first search of fillEnclosedRegions: the Empty cells
\* connected to region through Empty cells
RECURSIVE Flood(_, _, _)
Flood(b, region, frontier) ==
  IF frontier = {} THEN region
  ELSE Flood(b, region \cup frontier,
             {nb \in UNION {Range(NeighI[c]) : c \in frontier} :
                b.Cells[nb] = Empty /\ nb \notin region /\ nb \notin frontier})

\* a set of cells as a sequence in increasing order
RECURSIVE SeqOfSet(_)
SeqOfSet(S) ==
  IF S = {} THEN <<>>
  ELSE <<CHOOSE x \in S : \A y \in S : x <= y>>
         \o SeqOfSet(S \ {CHOOSE x \in S : \A y \in S : x <= y})

\* a region borders a piece of player pl
ferBorder(b, region, pl) ==
  \E c \in region : \E nb \in Range(NeighI[c]) : b.Cells[nb] = pl

\* the owner a region is handed to, Empty when it is not handed over
ferOwner(b, region) ==
  IF (\E c \in region : isOuterI[c])
       \/ (ferBorder(b, region, PlayerA) = ferBorder(b, region, PlayerB))
  THEN Empty
  ELSE IF ferBorder(b, region, PlayerA) THEN PlayerA ELSE PlayerB

\* GameState.fillEnclosedRegions works on st = [b, visited].
\* The region found from an Empty cell not yet visited: it is marked
\* visited and handed to its owner
ferRegion(st, region) ==
  [b |-> IF ferOwner(st.b, region) = Empty THEN st.b
         ELSE SetAll(st.b, SeqOfSet(region), ferOwner(st.b, region), 1),
   visited |-> st.visited \cup region]

\* the body of the loop for cell start
ferCell(st, start) ==
  IF st.b.Cells[start] # Empty \/ start \in st.visited THEN st
  ELSE ferRegion(st, Flood(st.b, {}, {start}))

\* the loop over the cells lo..hi, in order
RECURSIVE ferFrom(_, _, _)
ferFrom(st, lo, hi) ==
  IF lo > hi \/ ~Ready(st) THEN st
  ELSE IF lo = hi THEN ferCell(st, lo)
  ELSE ferFrom(ferFrom(st, lo, (lo + hi) \div 2), (lo + hi) \div 2 + 1, hi)

fillEnclosedRegions(b) == ferFrom([b |-> b, visited |-> {}], 0, BoardN - 1).b

WinnerOf(a, b) == IF a > b THEN PlayerA ELSE IF b > a THEN PlayerB ELSE Empty

\* what GameState.MakeMove returns and leaves: [gs, infected, undo, err]
gsOut(g, r) == [gs |-> g, infected |-> r.infected, undo |-> r.undo, err |-> FALSE]

\* the game ends on board b with scores a, sb
gsOver(gs, r, b, a, sb) ==
  gsOut([Board |-> b, CurrentPlayer |-> gs.CurrentPlayer, ScoreA |-> a,
         ScoreB |-> sb, GameOver |-> TRUE, Winner |-> WinnerOf(a, sb)], r)

\* the game ends on board b, the scores recounted
gsOverCounted(gs, r, b) ==
  gsOver(gs, r, b, CountPieces(b, PlayerA), CountPieces(b, PlayerB))

\* mutation of gsDecide: the game ends only when a side has no piece or no
\* cell is Empty, not when the next side has no move
gsDecideBlind(gs, r, b1, a, sb, emptyCnt, nNext) ==
  IF a = 0 \/ sb = 0 \/ emptyCnt = 0
  THEN gsOverCounted(gs, r, fillEnclosedRegions(b1))
  ELSE gsOut([Board |-> b1, CurrentPlayer |-> Opponent(gs.CurrentPlayer),
              ScoreA |-> a, ScoreB |-> sb, GameOver |-> FALSE,
              Winner |-> gs.Winner], r)

\* steps 3 to 5 of GameState.MakeMove: b1 the board after the move, a and sb
\* the updated scores, emptyCnt the Empty cells, nNext = len(nextMoves)
gsDecide(gs, r, b1, a, sb, emptyCnt, nNext) ==
  IF nNext = 0 /\ emptyCnt > 0
  THEN gsOverCounted(gs, r, claimAllEmpty(b1, gs.CurrentPlayer))
  ELSE IF a = 0 \/ sb = 0 \/ emptyCnt = 0 \/ nNext = 0
  THEN IF a = 0 \/ sb = 0 \/ emptyCnt = 0
       THEN gsOverCounted(gs, r, fillEnclosedRegions(b1))
       ELSE IF gs.CurrentPlayer = PlayerA
            THEN gsOver(gs, r, b1, BoardN - CountPieces(b1, Blocked) - sb, sb)
            ELSE gsOver(gs, r, b1, a, BoardN - CountPieces(b1, Blocked) - a)
  ELSE gsOut([Board |-> b1, CurrentPlayer |-> Opponent(gs.CurrentPlayer),
              ScoreA |-> a, ScoreB |-> sb, GameOver |-> FALSE,
              Winner |-> gs.Winner], r)

\* step 2 of GameState.MakeMove, b1 being the board after step 1
gsCount(gs, r, b1) ==
  gsDecide(gs, r, b1, CountPieces(b1, PlayerA), CountPieces(b1, PlayerB),
           CountPieces(b1, Empty),
           Len(GenerateMoves(b1, Opponent(gs.CurrentPlayer))))

\* GameState.MakeMove after m.MakeMove returned r: LastMover and LastInfect
\* are recorded on the board
gsMoved(gs, r) ==
  gsCount(gs, r, [r.b EXCEPT !.LastMover = gs.CurrentPlayer,
                             !.LastInfect = Len(r.infected)])

\* mutation of GSMakeMove: no check of GameOver
GSMakeMoveUnguarded(gs, m) == gsMoved(gs, MakeMove(m, gs.Board, gs.CurrentPlayer))

\* GameState.MakeMove.  The move is not checked for legality.
GSMakeMove(gs, m) ==
  IF gs.GameOver
  THEN [gs |-> gs, infected |-> <<>>, undo |-> NoUndo, err |-> TRUE]
  ELSE gsMoved(gs, MakeMove(m, gs.Board, gs.CurrentPlayer))

\* ------------------------------------------------------------------------
\* ai.go: the move filters.  Each filter compacts the slice in place and
\* returns a prefix of it, or the whole slice when nothing would be left.
\* ------------------------------------------------------------------------
\* the in-place loop  for i: if keep[i] { moves[n] = moves[i]; n++ }
\* works on st = [a, n], the array and the number of moves kept.
\* Its body for position i
compactAt(st, keep, i) ==
  IF keep[i] THEN [a |-> [st.a EXCEPT ![st.n + 1] = st.a[i]], n |-> st.n + 1]
  ELSE st

\* the loop over the positions lo..hi, in order
RECURSIVE compactRange(_, _, _, _)
compactRange(st, keep, lo, hi) ==
  IF lo > hi \/ ~Ready(st) THEN st
  ELSE IF lo = hi THEN compactAt(st, keep, lo)
  ELSE compactRange(compactRange(st, keep, lo, (lo + hi) \div 2), keep,
                    (lo + hi) \div 2 + 1, hi)

\* the loop from position i on, n moves being kept so far
compact(a, keep, i, n) == compactRange([a |-> a, n |-> n], keep, i, Len(a))

\* mutation of compactOrAll: the fallback to the whole slice is left out
compactNoFallback(r) == SubSeq(r.a, 1, r.n)

\* if n > 0 { return moves[:n] }; return moves[:originalCount]
compactOrAll(r) == IF r.n > 0 THEN SubSeq(r.a, 1, r.n) ELSE r.a

\* mutation of filterJumpsByFlag: no jump is kept, even when only jumps are left
filterJumpsByFlagStrict(b, side, moves, allowJump) ==
  IF allowJump THEN moves ELSE SelectSeq(moves, IsClone)

\* part_002: filterJumpsByFlag
filterJumpsByFlag(b, side, moves, allowJump) ==
  IF allowJump THEN moves
  ELSE compactOrAll(compact(moves, [k \in 1..Len(moves) |-> IsClone(moves[k])], 1, 0))

\* evaluate.go: previewInfectedCount
previewInfectedCount(b, mv, player) ==
  Cardinality({k \in 1..Len(Directions) :
                 Get(b, Add(mv.To, Directions[k])) = Opponent(player)})

\* the second loop of filterZeroInfectJumpsOrFallback: the clones, else all
fzClones(moves) ==
  compactOrAll(compact(moves, [k \in 1..Len(moves) |-> IsClone(moves[k])], 1, 0))

\* filterZeroInfectJumpsOrFallback after its first loop returned r
fzFirst(r) == IF r.n > 0 THEN SubSeq(r.a, 1, r.n) ELSE fzClones(r.a)

filterZeroInfectJumpsOrFallback(b, side, moves) ==
  fzFirst(compact(moves,
                  [k \in 1..Len(moves) |->
                     ~(IsJump(moves[k]) /\ previewInfectedCount(b, moves[k], side) = 0)],
                  1, 0))

opponentCanReachNextI(b, op, dst) ==
  /\ b.Cells[dst] = Empty
  /\ \/ \E k \in 1..Len(NeighI[dst]) : b.Cells[NeighI[dst][k]] = op
     \/ \E k \in 1..Len(JumpI[dst]) : b.Cells[JumpI[dst][k]] = op

\* filterDangerousRecaptureJumps: the jump mv to toIdx that infects the one
\* cell inf is dangerous
frDanger(b, op, toIdx, inf) ==
  \E k \in 1..Len(NeighI[toIdx]) :
    /\ b.Cells[NeighI[toIdx][k]] = Empty
    /\ isNeighborI(inf, NeighI[toIdx][k])
    /\ opponentCanReachNextI(b, op, NeighI[toIdx][k])

\* filterDangerousRecaptureJumps: the neighbours of toIdx that hold op (the
\* loop that sets inf to the single one, or to -2 when there are more)
frInfected(b, op, toIdx) == {nb \in Range(NeighI[toIdx]) : b.Cells[nb] = op}

\* filterDangerousRecaptureJumps: mv is kept
frKeep(b, me, mv) ==
  \/ ~IsJump(mv)
  \/ ~InIndex(mv.To)
  \/ Cardinality(frInfected(b, Opponent(me), IndexOf[mv.To])) # 1
  \/ ~frDanger(b, Opponent(me), IndexOf[mv.To],
               CHOOSE nb \in frInfected(b, Opponent(me), IndexOf[mv.To]) : TRUE)

filterDangerousRecaptureJumps(b, me, moves) ==
  compactOrAll(compact(moves, [k \in 1..Len(moves) |-> frKeep(b, me, moves[k])], 1, 0))

infectionUnlocked(b) ==
  \/ b.LastInfect > 0
  \/ \E i \in Cellx :
       /\ b.Cells[i] \in Players
       /\ \E k \in 1..Len(NeighI[i]) :
            /\ b.Cells[NeighI[i][k]] \in Players
            /\ b.Cells[NeighI[i][k]] # b.Cells[i]

filterOpeningEdgeOnly(b, side, moves) ==
  IF infectionUnlocked(b) THEN moves
  ELSE compactOrAll(
         compact(moves,
                 [k \in 1..Len(moves) |->
                    /\ IsClone(moves[k])
                    /\ isOuterI[IndexOf[moves[k].From]]
                    /\ isOuterI[IndexOf[moves[k].To]]],
                 1, 0))

isIsolated(b, who, at) ==
  /\ InIndex(at)
  /\ b.Cells[IndexOf[at]] = who
  /\ \A k \in 1..Len(NeighI[IndexOf[at]]) : b.Cells[NeighI[IndexOf[at]][k]] # who

\* sharedNeighbors, as a set: the loops over it only ask for some element
sharedNeighbors(a, b) ==
  {Add(b, Directions[k]) : k \in 1..Len(Directions)}
    \cap {Add(a, Directions[k]) : k \in 1..Len(Directions)}

opponentCanJumpTo(b, op, dst) ==
  /\ InIndex(dst)
  /\ b.Cells[IndexOf[dst]] = Empty
  /\ \E k \in 1..Len(JumpI[IndexOf[dst]]) : b.Cells[JumpI[IndexOf[dst]][k]] = op

opponentCanCloneTo(b, op, dst) ==
  /\ InIndex(dst)
  /\ b.Cells[IndexOf[dst]] = Empty
  /\ \E k \in 1..Len(NeighI[IndexOf[dst]]) : b.Cells[NeighI[IndexOf[dst]][k]] = op

opponentCanReachNext(b, op, dst) ==
  opponentCanCloneTo(b, op, dst) \/ opponentCanJumpTo(b, op, dst)

isDangerousIsolatedClone(b, me, mv) ==
  /\ IsClone(mv)
  /\ isIsolated(b, me, mv.From)
  /\ \E x \in sharedNeighbors(mv.From, mv.To) : opponentCanReachNext(b, Opponent(me), x)

\* r := empties / total; r < 0.65
fdFewEmpties(b) == CountPieces(b, Empty) * 100 < 65 * BoardN

filterDangerousIsolatedClones(b, me, moves) ==
  IF fdFewEmpties(b) THEN moves
  ELSE compactOrAll(
         compact(moves,
                 [k \in 1..Len(moves) |-> ~isDangerousIsolatedClone(b, me, moves[k])],
                 1, 0))

\* filterVulnerableZeroInfClones: mv is kept
fvKeep(b, me, mv) ==
  \/ ~IsClone(mv)
  \/ previewInfectedCount(b, mv, me) # 0
  \/ ~\E x \in sharedNeighbors(mv.From, mv.To) :
         /\ InIndex(x)
         /\ b.Cells[IndexOf[x]] = Empty
         /\ opponentCanReachNext(b, Opponent(me), x)

filterVulnerableZeroInfClones(b, me, moves) ==
  compactOrAll(compact(moves, [k \in 1..Len(moves) |-> fvKeep(b, me, moves[k])], 1, 0))

\* applyMoveFilters with the input and output of each stage it runs:
\* acc = [out, log]
logStage(acc, name, out) ==
  [out |-> out, log |-> Append(acc.log, [stage |-> name, in |-> acc.out, out |-> out])]

amfJumps(b, side, acc, allowJump) ==
  IF ~Ready(acc) THEN acc
  ELSE logStage(acc, "filterJumpsByFlag",
                filterJumpsByFlag(b, side, acc.out, allowJump))

amfEdge(b, side, acc) ==
  IF ~Ready(acc) THEN acc
  ELSE logStage(acc, "filterOpeningEdgeOnly", filterOpeningEdgeOnly(b, side, acc.out))

amfZero(b, side, acc) ==
  IF ~Ready(acc) THEN acc
  ELSE logStage(acc, "filterZeroInfectJumpsOrFallback",
                filterZeroInfectJumpsOrFallback(b, side, acc.out))

amfRecapture(b, side, acc, allowJump) ==
  IF ~Ready(acc) \/ ~allowJump THEN acc
  ELSE logStage(acc, "filterDangerousRecaptureJumps",
                filterDangerousRecaptureJumps(b, side, acc.out))

amfVulnerable(b, side, acc) ==
  IF ~Ready(acc) THEN acc
  ELSE logStage(acc, "filterVulnerableZeroInfClones",
                filterVulnerableZeroInfClones(b, side, acc.out))

amfIsolated(b, side, acc) ==
  IF ~Ready(acc) THEN acc
  ELSE logStage(acc, "filterDangerousIsolatedClones",
                filterDangerousIsolatedClones(b, side, acc.out))

\* applyMoveFilters: useNN is whether UseONNXForPlayerA / UseONNXForPlayerB
\* is set for side
amfStages(b, side, moves, allowJump, useNN) ==
  IF useNN
  THEN amfVulnerable(b, side,
         amfRecapture(b, side,
           amfZero(b, side,
             amfJumps(b, side, [out |-> moves, log |-> <<>>], allowJump)),
           allowJump))
  ELSE amfIsolated(b, side,
         amfVulnerable(b, side,
           amfRecapture(b, side,
             amfZero(b, side,
               amfEdge(b, side,
                 amfJumps(b, side, [out |-> moves, log |-> <<>>], allowJump))),
             allowJump)))

applyMoveFilters(b, side, moves, allowJump, useNN) ==
  amfStages(b, side, moves, allowJump, useNN).out

\* ------------------------------------------------------------------------
\* evaluate.go: the static evaluator
\* ------------------------------------------------------------------------
isOuter(c, radius) == max3(abs(c[1]), abs(c[2]), abs(c[1] + c[2])) = radius

\* the weights of evaluateStatic
esPieceW == 5
esEdgeW == 6
esTriW == 6
cloneInfW == 6
jumpInfW == 2
weakJumpPenalty == 500

\* the search of countTriangleBlocks: the cells of side connected to comp
RECURSIVE ctbFlood(_, _, _, _)
ctbFlood(b, side, comp, frontier) ==
  IF frontier = {} THEN comp
  ELSE ctbFlood(b, side, comp \cup frontier,
                {nb \in UNION {Range(NeighI[c]) : c \in frontier} :
                   b.Cells[nb] = side /\ nb \notin comp /\ nb \notin frontier})

\* hasTightTriangle: some cell of the component has two neighbours in
\* consecutive directions in the component.  compSet holds coordinates.
hasTightTriangle(compSet) ==
  \E c \in compSet : \E k \in 1..6 :
    /\ Add(c, Directions[k]) \in compSet
    /\ Add(c, Directions[(k % 6) + 1]) \in compSet

\* the components the loop of countTriangleBlocks finds: with visited, each
\* connected component of the cells of side is searched once, from its
\* first cell
ctbComponents(b, side) ==
  {ctbFlood(b, side, {}, {k}) : k \in {i \in Cellx : b.Cells[i] = side}}

\* countTriangleBlocks: the components of at least 3 cells that hold a
\* tight triangle
countTriangleBlocks(b, side) ==
  Cardinality({comp \in ctbComponents(b, side) :
                 /\ Cardinality(comp) >= 3
                 /\ hasTightTriangle({CoordOf[c] : c \in comp})})

\* evaluateStatic: the edge term counts the player's own edge cells only
esEdge(b, player) ==
  Cardinality({i \in Cellx : b.Cells[i] = player /\ isOuter(CoordOf[i], boardRadius)})

\* evaluateStatic: the weak jump penalty, mover being the piece on LastMove.To
esWeakJumpOf(b, player, mover) ==
  IF /\ mover \in Players
     /\ Cardinality({k \in 1..Len(cloneDirs) :
                       Get(b, Add(b.LastMove.To, cloneDirs[k])) = mover}) <= 1
     /\ mover = player
  THEN -weakJumpPenalty
  ELSE 0

esWeakJump(b, player) ==
  IF IsJump(b.LastMove) THEN esWeakJumpOf(b, player, Get(b, b.LastMove.To)) ELSE 0

\* evaluateStatic: the infection of the last move
esInfNow(b, player) ==
  IF b.LastInfect > 0 /\ b.LastMover \in Players
  THEN (IF b.LastMover = player THEN 1 ELSE -1)
         * b.LastInfect * (IF IsClone(b.LastMove) THEN cloneInfW ELSE jumpInfW)
  ELSE 0

evaluateStatic(b, player) ==
  (CountPieces(b, player) - CountPieces(b, Opponent(player))) * esPieceW
    + esEdge(b, player) * esEdgeW
    + (countTriangleBlocks(b, player) - countTriangleBlocks(b, Opponent(player))) * esTriW
    + esWeakJump(b, player)
    + esInfNow(b, player)

\* ------------------------------------------------------------------------
\* evaluate_bitboard.go: the bitboard evaluator
\* ------------------------------------------------------------------------
\* the weights of EvaluateBitBoard
pieceW == 10
edgeW == 2
triW == 15

edgeMask == {i \in Cellx : isOuterI[i]}

neighMask == [i \in Cellx |-> Range(NeighI[i])]

\* the triples a < b < c of pairwise adjacent cells, b and c neighbours of a
triMasksAt(a) ==
  {{a, bc[1], bc[2]} : bc \in
     {p \in neighMask[a] \X neighMask[a] :
        p[1] > a /\ p[2] > p[1] /\ isNeighborI(p[1], p[2])}}

tightTriMasks == UNION {triMasksAt(a) : a \in Cellx}

boardMasks(b, player) ==
  [my |-> {i \in Cellx : b.Cells[i] = player},
   op |-> {i \in Cellx : b.Cells[i] = Opponent(player)}]

\* the loop of floodComponent
RECURSIVE fcLoop(_, _, _)
RECURSIVE fcNext(_, _, _)
fcLoop(comp, frontier, mask) ==
  fcNext(comp, ((UNION {neighMask[idx] : idx \in frontier}) \cap mask) \ comp, mask)

fcNext(comp, next, mask) ==
  IF next = {} THEN comp ELSE fcLoop(comp \cup next, next, mask)

floodComponent(seed, mask) == fcLoop(seed, seed, mask)

componentHasTightTriangle(comp) ==
  /\ Cardinality(comp) >= 3
  /\ \E tri \in tightTriMasks : tri \subseteq comp

\* remain & -remain: the lowest set bit
lowestBit(remain) == {CHOOSE i \in remain : \A j \in remain : i <= j}

\* the loop of countTriangleBlocksBB
RECURSIVE ctbbLoop(_, _)
RECURSIVE ctbbComp(_, _, _)
ctbbLoop(remain, mask) ==
  IF remain = {} THEN 0
  ELSE ctbbComp(remain, mask, floodComponent(lowestBit(remain), mask))

ctbbComp(remain, mask, comp) ==
  (IF componentHasTightTriangle(comp) THEN 1 ELSE 0) + ctbbLoop(remain \ comp, mask)

countTriangleBlocksBB(mask) == ctbbLoop(mask, mask)

\* EvaluateBitBoard, m being the masks of the player and of the opponent
ebbScore(m) ==
  (Cardinality(m.my) - Cardinality(m.op)) * pieceW
    + (Cardinality(m.my \cap edgeMask) - Cardinality(m.op \cap edgeMask)) * edgeW
    + (countTriangleBlocksBB(m.my) - countTriangleBlocksBB(m.op)) * triW

EvaluateBitBoard(b, player) == ebbScore(boardMasks(b, player))

\* the two definitions of Evaluate: evaluate.go returns evaluateStatic,
\* evaluate_bitboard.go returns EvaluateBitBoard; a build holds one of them
Evaluators == {"evaluateStatic", "EvaluateBitBoard"}

Evaluate(ev, b, player) ==
  IF ev = "evaluateStatic" THEN evaluateStatic(b, player) ELSE EvaluateBitBoard(b, player)

\* ------------------------------------------------------------------------
\* tt.go: the transposition table, one call at a time
\* ------------------------------------------------------------------------
\* buckets of the model's table (ttBuckets = 1 << 21 in the program)
ttBuckets == 2
ttWays == 4

ttExact == 0
ttLower == 1
ttUpper == 2

\* the zero ttEntry
ttZero ==
  [version |-> 0, score |-> 0, depth |-> 0, flag |-> ttExact, bestIdx |-> 0, key |-> {}]

\* ttTable as make() leaves it
ttEmpty == [bk \in 0..(ttBuckets - 1) |-> [w \in 0..(ttWays - 1) |-> ttZero]]

\* key & ttMask: the bucket of a key
ttIndex(key) == Cardinality(key) % ttBuckets

\* mutation of saltKey: the salt is left out of the key
saltKeyNone(n) == {}

\* ttSalt after n calls of ClearTT: init() draws a random odd word and
\* ClearTT adds 1 to it, so each n has a word of its own, a key like the
\* Zobrist keys
saltKey(n) == {<<-2, n>>}

ttKeyFor(b, current, salt) == Xor(Xor(b.hash, zobristSide(sideIdx(current))), saltKey(salt))

\* probeTT from way w on, no store being in progress: [hit, score, flag]
RECURSIVE probeWays(_, _, _, _)
probeWays(bucket, key, needDepth, w) ==
  IF w >= ttWays THEN [hit |-> FALSE, score |-> 0, flag |-> ttExact]
  ELSE IF bucket[w].version % 2 = 1 \/ bucket[w].key # key
       THEN probeWays(bucket, key, needDepth, w + 1)
  ELSE IF bucket[w].depth >= needDepth
       THEN [hit |-> TRUE, score |-> bucket[w].score, flag |-> bucket[w].flag]
  ELSE probeWays(bucket, key, needDepth, w + 1)

probeTT(tt, key, needDepth) == probeWays(tt[ttIndex(key)], key, needDepth, 0)

\* the slot storeTT picks, scanning from way w on: the way of the key, else
\* the first way of least depth
RECURSIVE storeSlot(_, _, _, _, _)
storeSlot(bucket, key, w, slot, bestDepth) ==
  IF w >= ttWays THEN slot
  ELSE IF bucket[w].key = key THEN w
  ELSE IF bucket[w].depth < bestDepth
       THEN storeSlot(bucket, key, w + 1, w, bucket[w].depth)
  ELSE storeSlot(bucket, key, w + 1, slot, bestDepth)

\* the writes of storeTT to the entry e
storeEntry(e, key, depth, score, flag) ==
  [e EXCEPT !.version = @ + 2, !.score = score, !.depth = depth, !.flag = flag,
            !.key = key]

\* math.MaxInt32 and math.MinInt32.  The 64-bit bounds of the program
\* (math.MaxInt, math.MinInt, ^uint(0) >> 1) are only compared with depths
\* and evaluations, all of them strictly between the two, so they are
\* written MaxInt32 and MinInt32 here.
MaxInt32 == 2147483647
MinInt32 == -MaxInt32 - 1

storeAt(tt, bk, slot, key, depth, score, flag) ==
  [tt EXCEPT ![bk][slot] = storeEntry(@, key, depth, score, flag)]

storeTT(tt, key, depth, score, flag) ==
  storeAt(tt, ttIndex(key), storeSlot(tt[ttIndex(key)], key, 0, 0, MaxInt32),
          key, depth, score, flag)

\* probeBestIdx from way w on: [ok, idx]
RECURSIVE bestIdxWays(_, _, _)
bestIdxWays(bucket, key, w) ==
  IF w >= ttWays THEN [ok |-> FALSE, idx |-> 0]
  ELSE IF bucket[w].version % 2 = 1 \/ bucket[w].key # key
       THEN bestIdxWays(bucket, key, w + 1)
  ELSE [ok |-> TRUE, idx |-> bucket[w].bestIdx]

probeBestIdx(tt, key) == bestIdxWays(tt[ttIndex(key)], key, 0)

\* storeBestIdx from way w on: the first way that holds the key
RECURSIVE sbiWays(_, _, _, _)
sbiWays(bucket, key, idxBest, w) ==
  IF w >= ttWays THEN bucket
  ELSE IF bucket[w].key = key THEN [bucket EXCEPT ![w].bestIdx = idxBest]
  ELSE sbiWays(bucket, key, idxBest, w + 1)

storeBestIdx(tt, key, idxBest) ==
  [tt EXCEPT ![ttIndex(key)] = sbiWays(@, key, idxBest, 0)]

\* ------------------------------------------------------------------------
\* ai.go: alpha-beta with the transposition table
\* ------------------------------------------------------------------------
\* cf, the configuration of a search: ev, the Evaluate of the build; nnA and
\* nnB, UseONNXForPlayerA and UseONNXForPlayerB; allowJump; salt, the number
\* of ClearTT calls so far.
\* A search returns [score, tt, b]: its result, the table and the board it
\* leaves.  The node counters are statistics and are not modelled.
useNNOf(cf, side) == IF side = PlayerA THEN cf.nnA ELSE cf.nnB

abLeaf(cf, b, tt, original) ==
  [score |-> Evaluate(cf.ev, b, original), tt |-> tt, b |-> b]

\* moves[0], moves[i] = moves[i], moves[0] when the table holds a best index
swapBest(moves, pb) ==
  IF pb.ok /\ pb.idx < Len(moves)
  THEN [moves EXCEPT ![1] = moves[pb.idx + 1], ![pb.idx + 1] = moves[1]]
  ELSE moves

\* step 6 of alphaBeta: L is what the loop left
abStoreAs(L, key, depth, flag, valTT) ==
  [score |-> L.bestScore,
   tt |-> storeBestIdx(storeTT(L.tt, key, depth, valTT, flag), key, L.bestIdx),
   b |-> L.b]

abStore(current, original, depth, alphaOrig, betaOrig, key, L) ==
  abStoreAs(L, key, depth,
            IF L.bestScore <= alphaOrig THEN ttUpper
            ELSE IF L.bestScore >= betaOrig THEN ttLower
            ELSE ttExact,
            IF current # original THEN -L.bestScore ELSE L.bestScore)

RECURSIVE alphaBeta(_, _, _, _, _, _, _, _)
RECURSIVE abLoop(_, _, _, _, _, _, _, _)

\* The loop over the moves works on st = [b, tt, alpha, beta, bestScore,
\* bestIdx, done]: the board, the table, the window, the best so far, and
\* whether the loop has hit its break.
\* MAX node, the child of moves[i] returned r and the move was unmade (b)
abMax(st, b, r, i) ==
  [b |-> b, tt |-> r.tt,
   bestScore |-> IF r.score > st.bestScore THEN r.score ELSE st.bestScore,
   bestIdx |-> IF r.score > st.bestScore THEN (i - 1) % 256 ELSE st.bestIdx,
   alpha |-> IF r.score > st.alpha THEN r.score ELSE st.alpha,
   beta |-> st.beta,
   done |-> r.score > st.alpha /\ r.score >= st.beta]

\* MIN node, likewise
abMin(st, b, r, i) ==
  [b |-> b, tt |-> r.tt,
   bestScore |-> IF r.score < st.bestScore THEN r.score ELSE st.bestScore,
   bestIdx |-> IF r.score < st.bestScore THEN (i - 1) % 256 ELSE st.bestIdx,
   alpha |-> st.alpha,
   beta |-> IF r.score < st.beta THEN r.score ELSE st.beta,
   done |-> r.score < st.beta /\ r.score <= st.alpha]

\* the loop body after the child returned r: Board.UnmakeMove, then the
\* update of the best and of the window
abUnmade(st, undo, r, current, original, i) ==
  IF current = original THEN abMax(st, UnmakeMove(r.b, undo), r, i)
  ELSE abMin(st, UnmakeMove(r.b, undo), r, i)

\* the loop body: mk is what mMakeMoveWithUndo returned for moves[i]
abChild(cf, st, mk, current, original, depth, i) ==
  IF ~Ready(mk) THEN st
  ELSE abUnmade(st, mk.undo,
                alphaBeta(cf, mk.b, st.tt, Opponent(current), original, depth - 1,
                          st.alpha, st.beta),
                current, original, i)

\* the loop over moves[lo..hi] in order, up to its break
abLoop(cf, st, current, original, depth, moves, lo, hi) ==
  IF st.done \/ lo > hi THEN st
  ELSE IF lo = hi
       THEN abChild(cf, st, mMakeMoveWithUndo(st.b, moves[lo], current), current,
                    original, depth, lo)
  ELSE abLoop(cf, abLoop(cf, st, current, original, depth, moves, lo, (lo + hi) \div 2),
              current, original, depth, moves, (lo + hi) \div 2 + 1, hi)

\* the loop of alphaBeta over all of moves
abMovesLoop(cf, b, tt, current, original, depth, alpha, beta, moves) ==
  abLoop(cf, [b |-> b, tt |-> tt, alpha |-> alpha, beta |-> beta,
              bestScore |-> IF current = original THEN MinInt32 ELSE MaxInt32,
              bestIdx |-> 0, done |-> FALSE],
         current, original, depth, moves, 1, Len(moves))

\* steps 4 to 6 of alphaBeta, moves being the filtered moves
abSearch(cf, b, tt, current, original, depth, alpha, beta, key, moves) ==
  IF Len(moves) = 0 THEN abLeaf(cf, b, tt, original)
  ELSE abStore(current, original, depth, alpha, beta, key,
               abMovesLoop(cf, b, tt, current, original, depth, alpha, beta,
                           swapBest(moves, probeBestIdx(tt, key))))

\* alphaBeta after the probe, with the window the probe left
abMoves(cf, b, tt, current, original, depth, alpha, beta, key) ==
  abSearch(cf, b, tt, current, original, depth, alpha, beta, key,
           applyMoveFilters(b, current, GenerateMoves(b, current), cf.allowJump,
                            useNNOf(cf, current)))

\* a hit that is not exact narrowed the window to alpha, beta
abNarrowed(cf, b, tt, current, original, depth, alpha, beta, key, val) ==
  IF alpha >= beta THEN [score |-> val, tt |-> tt, b |-> b]
  ELSE abMoves(cf, b, tt, current, original, depth, alpha, beta, key)

\* a hit: val is the score in the view of original
abHit(cf, b, tt, current, original, depth, alpha, beta, key, val, flag) ==
  IF flag = ttExact THEN [score |-> val, tt |-> tt, b |-> b]
  ELSE abNarrowed(cf, b, tt, current, original, depth,
                  IF flag = ttLower /\ val > alpha THEN val ELSE alpha,
                  IF flag = ttUpper /\ val < beta THEN val ELSE beta,
                  key, val)

\* alphaBeta after probeTT returned pr
abProbed(cf, b, tt, current, original, depth, alpha, beta, key, pr) ==
  IF pr.hit
  THEN abHit(cf, b, tt, current, original, depth, alpha, beta, key,
             IF current # original THEN -pr.score ELSE pr.score, pr.flag)
  ELSE abMoves(cf, b, tt, current, original, depth, alpha, beta, key)

abKeyed(cf, b, tt, current, original, depth, alpha, beta, key) ==
  abProbed(cf, b, tt, current, original, depth, alpha, beta, key,
           probeTT(tt, key, depth))

alphaBeta(cf, b, tt, current, original, depth, alpha, beta) ==
  IF depth <= 0 THEN abLeaf(cf, b, tt, original)
  ELSE abKeyed(cf, b, tt, current, original, depth, alpha, beta,
               ttKeyFor(b, current, cf.salt))

\* AlphaBeta: the opponent of player moves first, jumps are allowed
AlphaBeta(cf, b, tt, player, depth) ==
  alphaBeta([cf EXCEPT !.allowJump = TRUE], b, tt, Opponent(player), player, depth,
            MinInt32, MaxInt32)

\* ------------------------------------------------------------------------
\* ai.go: alpha-beta without the transposition table.  It applies no move
\* filter, and it returns its initial best when there is no move.
\* A search returns [score, b].
\* ------------------------------------------------------------------------
RECURSIVE alphaBetaNoTT(_, _, _, _, _, _, _)
RECURSIVE nottLoop(_, _, _, _, _, _, _, _)

\* The loop over the moves works on st = [b, alpha, beta, best, done].
\* MAX node, the child returned score and the move was unmade (b)
nottMax(st, b, score) ==
  [b |-> b,
   best |-> IF score > st.best THEN score ELSE st.best,
   alpha |-> IF score > st.alpha THEN score ELSE st.alpha,
   beta |-> st.beta,
   done |-> (IF score > st.alpha THEN score ELSE st.alpha) >= st.beta]

\* MIN node, likewise
nottMin(st, b, score) ==
  [b |-> b,
   best |-> IF score < st.best THEN score ELSE st.best,
   alpha |-> st.alpha,
   beta |-> IF score < st.beta THEN score ELSE st.beta,
   done |-> (IF score < st.beta THEN score ELSE st.beta) <= st.alpha]

\* the loop body after the child returned r: Board.UnmakeMove, then the
\* update of best and of the window
nottUnmade(st, undo, r, current, original) ==
  IF current = original THEN nottMax(st, UnmakeMove(r.b, undo), r.score)
  ELSE nottMin(st, UnmakeMove(r.b, undo), r.score)

\* the loop body: mk is what mMakeMoveWithUndo returned for the move
nottChild(ev, st, mk, current, original, depth) ==
  IF ~Ready(mk) THEN st
  ELSE nottUnmade(st, mk.undo,
                  alphaBetaNoTT(ev, mk.b, Opponent(current), original, depth - 1,
                                st.alpha, st.beta),
                  current, original)

\* the loop over moves[lo..hi] in order, up to its break
nottLoop(ev, st, current, original, depth, moves, lo, hi) ==
  IF st.done \/ lo > hi THEN st
  ELSE IF lo = hi
       THEN nottChild(ev, st, mMakeMoveWithUndo(st.b, moves[lo], current), current,
                      original, depth)
  ELSE nottLoop(ev, nottLoop(ev, st, current, original, depth, moves, lo,
                             (lo + hi) \div 2),
                current, original, depth, moves, (lo + hi) \div 2 + 1, hi)

\* what alphaBetaNoTT returns after the loop
nottResult(st) == [score |-> st.best, b |-> st.b]

\* the loop of alphaBetaNoTT over all of moves
nottMovesLoop(ev, b, current, original, depth, alpha, beta, moves) ==
  nottResult(nottLoop(ev, [b |-> b, alpha |-> alpha, beta |-> beta,
                           best |-> IF current = original THEN MinInt32 ELSE MaxInt32,
                           done |-> FALSE],
                      current, original, depth, moves, 1, Len(moves)))

alphaBetaNoTT(ev, b, current, original, depth, alpha, beta) ==
  IF depth = 0 \/ CountPieces(b, PlayerA) + CountPieces(b, PlayerB) = BoardN
  THEN [score |-> Evaluate(ev, b, original), b |-> b]
  ELSE nottMovesLoop(ev, b, current, original, depth, alpha, beta,
                     GenerateMoves(b, current))

AlphaBetaNoTT(ev, b, player, depth) ==
  alphaBetaNoTT(ev, b, Opponent(player), player, depth, MinInt32, MaxInt32)

\* ------------------------------------------------------------------------
\* The game and the boards the engine works on
\* ------------------------------------------------------------------------
\* Board .. Winner: the fields of the GameState; the Board is also the board a
\*   search or a preview works on in place.
\* plies:    calls of GameState.MakeMove so far
\* undos:    the undo records of the makes not yet unmade, innermost last,
\*           each with the side that moved and the board before the make
\* descents: in-place descents (search, preview, ApplyMove) started so far
\* last:     the last operation, with its arguments and results
\* ttTable:  the transposition table
\* ttSalt:   the number of ClearTT calls so far
\* searches: the searches run on the table so far, and those since ClearTT
\* calls:    for each worker, the storeTT or probeTT call it is in, with its
\*           position and its local variables
\* stores:   the storeTT calls made so far
\* root:     the root search in progress: its arguments, the jobs left, the
\*           results so far, the boards on the heap and each worker's position
\* selfplay: the self-play driver: the chunk writer, its channel and files,
\*           and the game workers
VARIABLES Board, CurrentPlayer, ScoreA, ScoreB, GameOver, Winner,
          plies, undos, descents, last, ttTable, ttSalt, searches, calls, stores,
          root, selfplay, boardPool

vars == <<Board, CurrentPlayer, ScoreA, ScoreB, GameOver, Winner,
          plies, undos, descents, last, ttTable, ttSalt, searches, calls, stores,
          root, selfplay, boardPool>>

gameVars == <<Board, CurrentPlayer, ScoreA, ScoreB, GameOver, Winner, plies,
              undos, descents>>

ttVars == <<ttTable, ttSalt, searches, calls, stores>>

\* no root search is running; the self-play driver is not running
NoRoot == [pc |-> "idle"]

NoSelfplay == [pc |-> "off"]

\* boardPool: the boards the sync.Pool of board.go holds, as what is stored
\* in each
driverVars == <<root, selfplay, boardPool>>

\* the workers that are storing and the workers that are probing
Writers == 1..TTWriters

Readers == (TTWriters + 1)..(TTWriters + TTReaders)

Workers == Writers \cup Readers

Idle == [pc |-> "idle", n |-> 0]

ttInit ==
  /\ ttTable = ttEmpty
  /\ ttSalt = 0
  /\ searches = [total |-> 0, sinceClear |-> 0]
  /\ calls = [w \in Workers |-> Idle]
  /\ stores = {}

GS ==
  [Board |-> Board, CurrentPlayer |-> CurrentPlayer, ScoreA |-> ScoreA,
   ScoreB |-> ScoreB, GameOver |-> GameOver, Winner |-> Winner]

SetGS(g) ==
  /\ Board' = g.Board
  /\ CurrentPlayer' = g.CurrentPlayer
  /\ ScoreA' = g.ScoreA
  /\ ScoreB' = g.ScoreB
  /\ GameOver' = g.GameOver
  /\ Winner' = g.Winner

gsFixed == UNCHANGED <<CurrentPlayer, ScoreA, ScoreB, GameOver, Winner>>

NoOp == [op |-> "none"]

Init ==
  /\ Board = NewGameState.Board
  /\ CurrentPlayer = NewGameState.CurrentPlayer
  /\ ScoreA = NewGameState.ScoreA
  /\ ScoreB = NewGameState.ScoreB
  /\ GameOver = NewGameState.GameOver
  /\ Winner = NewGameState.Winner
  /\ plies = 0
  /\ undos = <<>>
  /\ descents = 0
  /\ last = NoOp
  /\ ttInit
  /\ root = NoRoot
  /\ selfplay = NoSelfplay
  /\ boardPool = {}

\* the state GameState.MakeMove leaves, r being what it returned; ever says
\* whether this move or a move of the game before it has infected a piece
GameMoved(r, m) ==
  /\ SetGS(r.gs)
  /\ last' = [op |-> "GameState.MakeMove", pre |-> Board, m |-> m,
              player |-> CurrentPlayer, infected |-> Len(r.infected),
              ever |-> \/ Len(r.infected) > 0
                       \/ (last.op = "GameState.MakeMove" /\ last.ever)]

\* the UI and the self-play driver play a move GenerateMoves offers
GameMakeMove ==
  /\ undos = <<>>
  /\ descents = 0
  /\ ~GameOver
  /\ plies < MaxPlies
  /\ \E m \in Range(GenerateMoves(Board, CurrentPlayer)) :
       GameMoved(GSMakeMove(GS, m), m)
  /\ plies' = plies + 1
  /\ UNCHANGED <<undos, descents>>
  /\ UNCHANGED <<ttVars, driverVars>>

\* the state mMakeMoveWithUndo leaves, r being what it returned
SearchMade(r, m, p) ==
  /\ Board' = r.b
  /\ undos' = Append(undos, [undo |-> r.undo, player |-> p, pre |-> Board])
  /\ last' = [op |-> "mMakeMoveWithUndo", pre |-> Board, m |-> m, player |-> p]

\* a search (alphaBeta, findImmediateWinOnly, MCTS) descends one move
SearchMake ==
  /\ ~GameOver
  /\ Len(undos) < MaxSearchDepth
  /\ undos # <<>> \/ descents < MaxDescents
  /\ \E p \in (IF undos = <<>> THEN Players
               ELSE {Opponent(undos[Len(undos)].player)}) :
       \E m \in Range(GenerateMoves(Board, p)) :
         SearchMade(mMakeMoveWithUndo(Board, m, p), m, p)
  /\ descents' = IF undos = <<>> THEN descents + 1 ELSE descents
  /\ UNCHANGED plies
  /\ gsFixed
  /\ UNCHANGED <<ttVars, driverVars>>

\* the search returns from a move with Board.UnmakeMove
SearchUnmake ==
  /\ undos # <<>>
  /\ Board' = UnmakeMove(Board, undos[Len(undos)].undo)
  /\ undos' = SubSeq(undos, 1, Len(undos) - 1)
  /\ last' = [op |-> "UnmakeMove", pre |-> undos[Len(undos)].pre,
              via |-> "mMakeMoveWithUndo"]
  /\ UNCHANGED <<plies, descents>>
  /\ gsFixed
  /\ UNCHANGED <<ttVars, driverVars>>

\* Move.ApplyPreview: Move.MakeMove, then Board.UnmakeMove with its undo
Preview ==
  /\ ~GameOver
  /\ undos = <<>>
  /\ descents < MaxDescents
  /\ \E p \in Players : \E m \in Range(GenerateMoves(Board, p)) :
       /\ Board' = ApplyPreview(m, Board, p).b
       /\ last' = [op |-> "UnmakeMove", pre |-> Board, via |-> "Move.MakeMove"]
  /\ descents' = descents + 1
  /\ UNCHANGED <<plies, undos>>
  /\ gsFixed
  /\ UNCHANGED <<ttVars, driverVars>>

\* the root of a search plays a move on its board with Board.ApplyMove
BoardApplyMove ==
  /\ ~GameOver
  /\ undos = <<>>
  /\ descents < MaxDescents
  /\ \E p \in Players : \E m \in Range(GenerateMoves(Board, p)) :
       /\ Board' = ApplyMove(Board, m, p)
       /\ last' = [op |-> "ApplyMove", pre |-> Board, m |-> m, player |-> p]
  /\ descents' = descents + 1
  /\ UNCHANGED <<plies, undos>>
  /\ gsFixed
  /\ UNCHANGED <<ttVars, driverVars>>

Next ==
  \/ GameMakeMove
  \/ SearchMake
  \/ SearchUnmake
  \/ Preview
  \/ BoardApplyMove

Spec == Init /\ [][Next]_vars

\* ------------------------------------------------------------------------
\* The pure functions of the engine, each applied once to a board of a game
\* ------------------------------------------------------------------------
\* the GameStates of the games of at most k plies
gwStep(S) ==
  S \cup UNION {{GSMakeMove(g, m).gs :
                   m \in Range(GenerateMoves(g.Board, g.CurrentPlayer))} :
                g \in {x \in S : ~x.GameOver}}

RECURSIVE GamesWithin(_)
GamesWithin(k) == IF k = 0 THEN {NewGameState} ELSE gwStep(GamesWithin(k - 1))

\* the state of a game g that was just loaded, nothing called yet
AtGame(g) ==
  /\ Board = g.Board
  /\ CurrentPlayer = g.CurrentPlayer
  /\ ScoreA = g.ScoreA
  /\ ScoreB = g.ScoreB
  /\ GameOver = g.GameOver
  /\ Winner = g.Winner
  /\ plies = 0
  /\ undos = <<>>
  /\ descents = 0
  /\ last = NoOp
  /\ ttInit
  /\ root = NoRoot
  /\ selfplay = NoSelfplay
  /\ boardPool = {}

InitPure == \E g \in GamesWithin(PurePlies) : AtGame(g)

pureFixed == UNCHANGED <<gameVars, ttVars, driverVars>>

\* GenerateMoves(Board, p) is called
CallGenerateMoves ==
  /\ last = NoOp
  /\ \E p \in Players :
       last' = [op |-> "GenerateMoves", player |-> p,
                moves |-> GenerateMoves(Board, p)]
  /\ pureFixed

\* the lists the filters are applied to: the moves GenerateMoves offers, and
\* the lists of a side that has only jumps, or only clones, among them
FilterInputs(b, p) ==
  {GenerateMoves(b, p), SelectSeq(GenerateMoves(b, p), IsJump),
   SelectSeq(GenerateMoves(b, p), IsClone)}

\* the state a call of applyMoveFilters leaves, r being its stages
Filtered(r, p, moves, allowJump, useNN) ==
  last' = [op |-> "applyMoveFilters", player |-> p, in |-> moves,
           allowJump |-> allowJump, useNN |-> useNN, out |-> r.out,
           stages |-> r.log]

\* applyMoveFilters(Board, p, moves, allowJump) is called
CallApplyMoveFilters ==
  /\ last = NoOp
  /\ \E p \in Players : \E moves \in FilterInputs(Board, p) :
       \E allowJump \in BOOLEAN : \E useNN \in BOOLEAN :
         Filtered(amfStages(Board, p, moves, allowJump, useNN), p, moves,
                  allowJump, useNN)
  /\ pureFixed

\* Evaluate(Board, PlayerA) and Evaluate(Board, PlayerB) are called
CallEvaluate ==
  /\ last = NoOp
  /\ \E ev \in Evaluators :
       last' = [op |-> "Evaluate", ev |-> ev,
                a |-> Evaluate(ev, Board, PlayerA),
                b |-> Evaluate(ev, Board, PlayerB)]
  /\ pureFixed

NextPure ==
  \/ CallGenerateMoves
  \/ CallApplyMoveFilters
  \/ CallEvaluate

SpecPure == InitPure /\ [][NextPure]_vars

\* ------------------------------------------------------------------------
\* The searches, each run on the board of a game and on the table the
\* searches before it left
\* ------------------------------------------------------------------------
InitSearch == \E g \in GamesWithin(SearchPlies) : AtGame(g)

searchFixed ==
  UNCHANGED <<CurrentPlayer, ScoreA, ScoreB, GameOver, Winner, plies, undos,
              descents, calls, stores, driverVars>>

\* the values of UseONNXForPlayerA and UseONNXForPlayerB: the network is on
\* for both sides or for neither
SearchConfigs ==
  {[ev |-> ev, nnA |-> nn, nnB |-> nn, allowJump |-> TRUE, salt |-> ttSalt] :
     ev \in Evaluators, nn \in BOOLEAN}

\* ClearTT: a new salt; the entries stay in the table
ClearTT ==
  /\ ttSalt < MaxClears
  /\ ttSalt' = ttSalt + 1
  /\ searches' = [searches EXCEPT !.sinceClear = 0]
  /\ last' = [op |-> "ClearTT"]
  /\ UNCHANGED <<Board, ttTable>>
  /\ searchFixed

\* the state AlphaBeta leaves, r being what it returned
Searched(r, cf, player, depth) ==
  /\ Board' = r.b
  /\ ttTable' = r.tt
  /\ last' = [op |-> "AlphaBeta", ev |-> cf.ev, nn |-> cf.nnA, player |-> player,
              depth |-> depth, score |-> r.score, pre |-> Board,
              fresh |-> searches.sinceClear = 0]

\* AlphaBeta(Board, player, depth) is called
CallAlphaBeta ==
  /\ ~GameOver
  /\ searches.total < MaxSearches
  /\ \E cf \in SearchConfigs : \E player \in Players : \E depth \in 1..MaxABDepth :
       Searched(AlphaBeta(cf, Board, ttTable, player, depth), cf, player, depth)
  /\ searches' = [total |-> searches.total + 1, sinceClear |-> searches.sinceClear + 1]
  /\ UNCHANGED ttSalt
  /\ searchFixed

\* the state AlphaBetaNoTT leaves, r being what it returned
SearchedNoTT(r, ev, player, depth) ==
  /\ Board' = r.b
  /\ last' = [op |-> "AlphaBetaNoTT", ev |-> ev, player |-> player,
              depth |-> depth, score |-> r.score, pre |-> Board]

\* AlphaBetaNoTT(Board, player, depth) is called
CallAlphaBetaNoTT ==
  /\ ~GameOver
  /\ searches.total < MaxSearches
  /\ \E ev \in Evaluators : \E player \in Players : \E depth \in 1..MaxABDepth :
       SearchedNoTT(AlphaBetaNoTT(ev, Board, player, depth), ev, player, depth)
  /\ searches' = [searches EXCEPT !.total = @ + 1]
  /\ UNCHANGED <<ttTable, ttSalt>>
  /\ searchFixed

NextSearch ==
  \/ ClearTT
  \/ CallAlphaBeta
  \/ CallAlphaBetaNoTT

SpecSearch == InitSearch /\ [][NextSearch]_vars

\* ------------------------------------------------------------------------
\* tt.go: storeTT and probeTT called by several workers at once, one atomic
\* load, store or add of an entry's field at a time
\* ------------------------------------------------------------------------
\* the keys of the calls: the start position with either side to move; both
\* fall into one bucket
TTKeys ==
  {ttKeyFor(NewGameState.Board, PlayerA, 0), ttKeyFor(NewGameState.Board, PlayerB, 0)}

\* the results the searches store
StoreArgs ==
  {[depth |-> 1, score |-> 10, flag |-> ttExact],
   [depth |-> 2, score |-> 20, flag |-> ttLower]}

NeedDepths == {1, 2}

InitTT == AtGame(NewGameState)

ttFixed == UNCHANGED <<gameVars, last, ttSalt, searches, driverVars>>

\* the entry worker w is at
EntryOf(w) == ttTable[ttIndex(calls[w].key)][calls[w].way]

\* worker w is between two calls
MayStart(w) ==
  /\ calls[w].pc \in {"idle", "done"}
  /\ calls[w].n < TTCalls

\* worker w moves on to c, nothing written
Goes(w, c) ==
  /\ calls' = [calls EXCEPT ![w] = c]
  /\ UNCHANGED <<ttTable, stores>>

\* worker w writes field f of its slot and moves on to pc
Writes(w, f, v, pc) ==
  /\ ttTable' = [ttTable EXCEPT ![ttIndex(calls[w].key)][calls[w].slot][f] = v]
  /\ calls' = [calls EXCEPT ![w].pc = pc]
  /\ UNCHANGED stores

\* storeTT(key, depth, score, flag) is called by worker w
StartStore(w) ==
  /\ w \in Writers
  /\ MayStart(w)
  /\ \E key \in TTKeys : \E a \in StoreArgs :
       /\ calls' = [calls EXCEPT ![w] =
                      [pc |-> "scanKey", n |-> calls[w].n + 1, op |-> "storeTT",
                       key |-> key, depth |-> a.depth, score |-> a.score,
                       flag |-> a.flag, way |-> 0, slot |-> 0,
                       bestDepth |-> MaxInt32]]
       /\ stores' = stores \cup {[key |-> key, depth |-> a.depth,
                                  score |-> a.score, flag |-> a.flag]}
  /\ UNCHANGED ttTable
  /\ ttFixed

\* step 1 of storeTT, way calls[w].way: atomic.LoadUint64(&e.key) == key
StoreScanKey(w) ==
  /\ calls[w].pc = "scanKey"
  /\ IF EntryOf(w).key = calls[w].key
     THEN Goes(w, [calls[w] EXCEPT !.slot = calls[w].way, !.pc = "version1"])
     ELSE Goes(w, [calls[w] EXCEPT !.pc = "scanDepth"])
  /\ ttFixed

\* the state of the scan after the depth d of way calls[w].way was read
scanned(c, d) ==
  [c EXCEPT !.slot = IF d < c.bestDepth THEN c.way ELSE c.slot,
            !.bestDepth = IF d < c.bestDepth THEN d ELSE c.bestDepth,
            !.way = IF c.way + 1 < ttWays THEN c.way + 1 ELSE c.way,
            !.pc = IF c.way + 1 < ttWays THEN "scanKey" ELSE "version1"]

\* step 1 of storeTT: d := atomic.LoadInt32(&e.depth), the shallowest so far
StoreScanDepth(w) ==
  /\ calls[w].pc = "scanDepth"
  /\ Goes(w, scanned(calls[w], EntryOf(w).depth))
  /\ ttFixed

\* step 2 of storeTT: atomic.AddUint32(&e.version, 1)
StoreVersion1(w) ==
  /\ calls[w].pc = "version1"
  /\ Writes(w, "version",
            ttTable[ttIndex(calls[w].key)][calls[w].slot].version + 1, "score")
  /\ ttFixed

StoreScore(w) ==
  /\ calls[w].pc = "score"
  /\ Writes(w, "score", calls[w].score, "depth")
  /\ ttFixed

StoreDepth(w) ==
  /\ calls[w].pc = "depth"
  /\ Writes(w, "depth", calls[w].depth, "flag")
  /\ ttFixed

StoreFlag(w) ==
  /\ calls[w].pc = "flag"
  /\ Writes(w, "flag", calls[w].flag, "key")
  /\ ttFixed

StoreKey(w) ==
  /\ calls[w].pc = "key"
  /\ Writes(w, "key", calls[w].key, "version2")
  /\ ttFixed

\* the last step of storeTT: atomic.AddUint32(&e.version, 1)
StoreVersion2(w) ==
  /\ calls[w].pc = "version2"
  /\ Writes(w, "version",
            ttTable[ttIndex(calls[w].key)][calls[w].slot].version + 1, "done")
  /\ ttFixed

\* probeTT(key, needDepth) is called by worker w
StartProbe(w) ==
  /\ w \in Readers
  /\ MayStart(w)
  /\ \E key \in TTKeys : \E need \in NeedDepths :
       Goes(w, [pc |-> "readV1", n |-> calls[w].n + 1, op |-> "probeTT",
                key |-> key, need |-> need, way |-> 0, v1 |-> 0, score |-> 0,
                depth |-> 0, flag |-> ttExact, hit |-> FALSE, late |-> FALSE])
  /\ ttFixed

\* the break of the inner loop of probeTT: the next way, or no hit
nextWay(c) ==
  IF c.way + 1 < ttWays THEN [c EXCEPT !.way = c.way + 1, !.pc = "readV1"]
  ELSE [c EXCEPT !.pc = "done", !.hit = FALSE, !.score = 0, !.flag = ttExact]

\* v1 := atomic.LoadUint32(&e.version); an odd version: the entry is being written
ProbeV1(w) ==
  /\ calls[w].pc = "readV1"
  /\ IF EntryOf(w).version % 2 = 1
     THEN Goes(w, nextWay(calls[w]))
     ELSE Goes(w, [calls[w] EXCEPT !.v1 = EntryOf(w).version, !.pc = "readKey"])
  /\ ttFixed

\* k := atomic.LoadUint64(&e.key)
ProbeKey(w) ==
  /\ calls[w].pc = "readKey"
  /\ IF EntryOf(w).key # calls[w].key
     THEN Goes(w, nextWay(calls[w]))
     ELSE Goes(w, [calls[w] EXCEPT !.pc = "readScore"])
  /\ ttFixed

ProbeScore(w) ==
  /\ calls[w].pc = "readScore"
  /\ Goes(w, [calls[w] EXCEPT !.score = EntryOf(w).score, !.pc = "readDepth"])
  /\ ttFixed

ProbeDepth(w) ==
  /\ calls[w].pc = "readDepth"
  /\ Goes(w, [calls[w] EXCEPT !.depth = EntryOf(w).depth, !.pc = "readFlag"])
  /\ ttFixed

\* flag := e.flag, a plain load
ProbeFlag(w) ==
  /\ calls[w].pc = "readFlag"
  /\ Goes(w, [calls[w] EXCEPT !.flag = EntryOf(w).flag, !.pc = "readV2"])
  /\ ttFixed

\* flag := e.flag races with e.flag = flag of storeTT: neither is atomic
\* and no atomic operation orders the load before the store, so the load
\* may take its value after the load of version that follows it.  late
\* says that the load is still to take its value
ProbeFlagDeferred(w) ==
  /\ calls[w].pc = "readFlag"
  /\ Goes(w, [calls[w] EXCEPT !.late = TRUE, !.pc = "readV2"])
  /\ ttFixed

\* the end of the inner loop, v2 being the version read again
probed(c, v2) ==
  IF c.v1 = v2 /\ v2 % 2 = 0
  THEN IF c.depth >= c.need
       THEN (IF c.late THEN [c EXCEPT !.pc = "lateFlag"]
             ELSE [c EXCEPT !.pc = "done", !.hit = TRUE])
       ELSE [nextWay(c) EXCEPT !.late = FALSE]
  ELSE [c EXCEPT !.pc = "readV1", !.late = FALSE]

\* the deferred load of e.flag takes its value and probeTT returns the hit
ProbeFlagLate(w) ==
  /\ calls[w].pc = "lateFlag"
  /\ Goes(w, [calls[w] EXCEPT !.flag = EntryOf(w).flag, !.pc = "done",
                              !.hit = TRUE])
  /\ ttFixed

\* v2 := atomic.LoadUint32(&e.version)
ProbeV2(w) ==
  /\ calls[w].pc = "readV2"
  /\ Goes(w, probed(calls[w], EntryOf(w).version))
  /\ ttFixed

NextTT ==
  \E w \in Workers :
    \/ StartStore(w)
    \/ StoreScanKey(w)
    \/ StoreScanDepth(w)
    \/ StoreVersion1(w)
    \/ StoreScore(w)
    \/ StoreDepth(w)
    \/ StoreFlag(w)
    \/ StoreKey(w)
    \/ StoreVersion2(w)
    \/ StartProbe(w)
    \/ ProbeV1(w)
    \/ ProbeKey(w)
    \/ ProbeScore(w)
    \/ ProbeDepth(w)
    \/ ProbeFlag(w)
    \/ ProbeFlagDeferred(w)
    \/ ProbeV2(w)
    \/ ProbeFlagLate(w)

SpecTT == InitTT /\ [][NextTT]_vars

\* storeTT called while no other call of storeTT is in progress
StartStoreAlone(w) ==
  /\ \A o \in Writers : calls[o].pc \in {"idle", "done"}
  /\ StartStore(w)

\* one store at a time, probes at any time
NextTTOne ==
  \E w \in Workers :
    \/ StartStoreAlone(w)
    \/ StoreScanKey(w)
    \/ StoreScanDepth(w)
    \/ StoreVersion1(w)
    \/ StoreScore(w)
    \/ StoreDepth(w)
    \/ StoreFlag(w)
    \/ StoreKey(w)
    \/ StoreVersion2(w)
    \/ StartProbe(w)
    \/ ProbeV1(w)
    \/ ProbeKey(w)
    \/ ProbeScore(w)
    \/ ProbeDepth(w)
    \/ ProbeFlag(w)
    \/ ProbeFlagDeferred(w)
    \/ ProbeV2(w)
    \/ ProbeFlagLate(w)

SpecTTOne == InitTT /\ [][NextTTOne]_vars

\* ------------------------------------------------------------------------
\* ai.go, hybrid_eval.g.go: the root searches.  They are modelled for a run
\* without a network: UseONNXForPlayerA and UseONNXForPlayerB are false and
\* KataPolicyValue returns its error.
\* ------------------------------------------------------------------------
\* hybridAlphaBeta is alphaBeta with EvaluateBitBoard at its leaves, with the
\* allowJump it is given
hybridAlphaBeta(b, tt, current, original, depth, alpha, beta, allowJump, salt) ==
  alphaBeta([ev |-> "EvaluateBitBoard", nnA |-> FALSE, nnB |-> FALSE,
             allowJump |-> allowJump, salt |-> salt],
            b, tt, current, original, depth, alpha, beta)

\* findImmediateWinOnly: the loop works on st = [b, ok, mv]; its body for
\* mv, r being what mMakeMoveWithUndo returned
fiwTried(st, mv, p, r) ==
  [b |-> UnmakeMove(r.b, r.undo),
   ok |-> Len(GenerateMoves(r.b, Opponent(p))) = 0 \/ CountPieces(r.b, Empty) = 0,
   mv |-> IF Len(GenerateMoves(r.b, Opponent(p))) = 0 \/ CountPieces(r.b, Empty) = 0
          THEN mv ELSE st.mv]

\* the loop over moves[lo..hi] in order, up to its return
RECURSIVE fiwLoop(_, _, _, _, _)
fiwLoop(st, moves, p, lo, hi) ==
  IF st.ok \/ lo > hi THEN st
  ELSE IF lo = hi
       THEN fiwTried(st, moves[lo], p, mMakeMoveWithUndo(st.b, moves[lo], p))
  ELSE fiwLoop(fiwLoop(st, moves, p, lo, (lo + hi) \div 2), moves, p,
               (lo + hi) \div 2 + 1, hi)

\* findImmediateWinOnly(b, p): [b, ok, mv], b being the board it leaves
findImmediateWinOnly(b, p) ==
  fiwLoop([b |-> b, ok |-> FALSE, mv |-> NoMove], GenerateMoves(b, p), p, 1,
          Len(GenerateMoves(b, p)))

\* sort.Slice, descending by key: on a list of at most 12 elements it is an
\* insertion sort, so equal keys keep their order; that order is taken for
\* the longer lists too
sortPos(keys, i) ==
  1 + Cardinality({j \in 1..Len(keys) :
                     keys[j] > keys[i] \/ (keys[j] = keys[i] /\ j < i)})

sortDesc(xs, keys) ==
  [k \in 1..Len(xs) |-> xs[CHOOSE i \in 1..Len(xs) : sortPos(keys, i) = k]]

\* FindBestMoveAtDepth up to close(taskChan): the tasks in the order sent
fbmTasksOf(b, player, moves) ==
  sortDesc(moves, [k \in 1..Len(moves) |-> previewInfectedCount(b, moves[k], player)])

fbmTasks(b, player, allowJump) ==
  fbmTasksOf(b, player,
             applyMoveFilters(b, player, GenerateMoves(b, player), allowJump, FALSE))

\* boardPool.Get: a board the pool holds or, from New, a zero Board
poolGet(pool) == pool \cup {NewBoard}

\* acquireBoard, o being what boardPool.Get returned: the cells, the hash and
\* the last move are cleared; bitA and bitB are left as they are
acquireBoard(o) ==
  [o EXCEPT !.Cells = [i \in Cellx |-> Empty], !.hash = {}, !.LastMove = NoMove,
            !.LastMover = Empty, !.LastInfect = 0]

\* Board.Clone after nb := acquireBoard(b.radius): the cells, the hash and
\* the last move of b are copied to nb
cloneOnto(b, nb) ==
  [nb EXCEPT !.Cells = b.Cells, !.hash = b.hash, !.LastMove = b.LastMove,
             !.LastMover = b.LastMover, !.LastInfect = b.LastInfect]

\* Board.Clone where the pool holds no board: a board from the pool with the
\* cells, the hash and the last move of b; acquireBoard and Clone leave bitA
\* and bitB as the pool holds them, here those of a board new to the pool
Clone(b) == cloneOnto(b, acquireBoard(NewBoard))

\* cloneBoard: every field is copied
cloneBoard(b) == b

\* the end of FindBestMoveAtDepth.  results is sorted by score, descending,
\* equal scores in any order; then results[0] if it leads by more than 200,
\* else results[rand.Intn(topK)].  The scores of results[0] and results[1]:
fbmTop(results) ==
  CHOOSE s \in {r.score : r \in Range(results)} :
    \A r \in Range(results) : r.score <= s

fbmSecond(results) ==
  IF Cardinality({k \in 1..Len(results) : results[k].score = fbmTop(results)}) > 1
  THEN fbmTop(results)
  ELSE CHOOSE s \in {results[k].score : k \in 1..Len(results)} :
         /\ s < fbmTop(results)
         /\ \A k \in 1..Len(results) :
              results[k].score < fbmTop(results) => results[k].score <= s

\* the moves FindBestMoveAtDepth may return for these results
fbmPicks(results) ==
  IF Len(results) = 1 THEN {results[1].mv}
  ELSE IF fbmTop(results) > fbmSecond(results) + 200
       THEN {r.mv : r \in {x \in Range(results) : x.score = fbmTop(results)}}
  ELSE {r.mv : r \in {x \in Range(results) :
                         x.score \in {fbmTop(results), fbmSecond(results)}}}

\* policy_prune.go: policyPruneRoot: KataPolicyValue fails, moves is returned
policyPruneRoot(b, player, moves) == moves

\* ai.go: filterLowInfectJumpsOrFallback
fljKept(b, side, moves, minInf) ==
  SelectSeq(moves, LAMBDA mv : ~(IsJump(mv) /\ previewInfectedCount(b, mv, side) < minInf))

filterLowInfectJumpsOrFallback(b, side, moves, minInf) ==
  IF Len(fljKept(b, side, moves, minInf)) > 0 THEN fljKept(b, side, moves, minInf)
  ELSE IF Len(SelectSeq(moves, IsClone)) > 0 THEN SelectSeq(moves, IsClone)
  ELSE moves

\* FindBestMoveAtDepthHybrid, step 3: r >= earlyCloneThresh, r being the
\* share of empty cells; then only the clones to the outer ring, if any
earlyCloneThresh == 84

fbhEdgeClones(moves) ==
  SelectSeq(moves, LAMBDA m : IsClone(m) /\ isOuterI[IndexOf[m.To]])

fbhEarly(b, moves) ==
  IF CountPieces(b, Empty) * 100 >= earlyCloneThresh * BoardN
     /\ Len(fbhEdgeClones(moves)) > 0
  THEN fbhEdgeClones(moves)
  ELSE moves

\* steps 4 and 5: the flag of the UI, then the filters of the root
fbhFiltered(b, player, moves, allowJump) ==
  filterDangerousIsolatedClones(b, player,
    filterDangerousRecaptureJumps(b, player,
      filterLowInfectJumpsOrFallback(b, player,
        filterJumpsByFlag(b, player, moves, allowJump), 1)))

\* steps 1 to 6: the moves of the root
fbhMoves(b, player, allowJump) ==
  IF Len(GenerateMoves(b, player)) = 0 THEN <<>>
  ELSE IF Len(fbhFiltered(b, player, fbhEarly(b, GenerateMoves(b, player)), allowJump)) = 0
       THEN <<>>
  ELSE policyPruneRoot(b, player,
                       fbhFiltered(b, player, fbhEarly(b, GenerateMoves(b, player)),
                                   allowJump))

\* step 7: the score a move is ordered by, r being what mMakeMoveWithUndo on
\* the board of the caller returned
jumpMovePenalty == 25

fbhOrderScore(m, player, r) ==
  evaluateStatic(r.b, player) + 2 * previewInfectedCount(r.b, m, player)
    - (IF IsJump(m) THEN jumpMovePenalty ELSE 0)

\* step 7 works on st = [b, scores]: the board of the caller and the scores
fbhScored(st, m, player, r) ==
  [b |-> UnmakeMove(r.b, r.undo),
   scores |-> Append(st.scores, fbhOrderScore(m, player, r))]

RECURSIVE fbhScoreLoop(_, _, _, _, _)
fbhScoreLoop(st, moves, player, lo, hi) ==
  IF lo > hi \/ ~Ready(st) THEN st
  ELSE IF lo = hi
       THEN fbhScored(st, moves[lo], player, mMakeMoveWithUndo(st.b, moves[lo], player))
  ELSE fbhScoreLoop(fbhScoreLoop(st, moves, player, lo, (lo + hi) \div 2), moves,
                    player, (lo + hi) \div 2 + 1, hi)

\* the order of the jobs: by score, clones before jumps on equal scores
fbhOrderOf(moves, scores) ==
  sortDesc(moves, [k \in 1..Len(moves) |->
                     2 * scores[k] + (IF IsClone(moves[k]) THEN 1 ELSE 0)])

\* step 9: the moves FindBestMoveAtDepthHybrid may return for the results in
\* the order they arrived: bestMoves[0], or any of bestMoves when there are
\* several and bestScore - secondScore < 3
fbhInf == 1073741824

fbhAggregate(st, r) ==
  IF r.score > st.bestScore
  THEN [bestScore |-> r.score, secondScore |-> st.bestScore, bestMoves |-> <<r.mv>>]
  ELSE IF r.score = st.bestScore
       THEN [st EXCEPT !.bestMoves = Append(@, r.mv)]
  ELSE IF r.score > st.secondScore THEN [st EXCEPT !.secondScore = r.score]
  ELSE st

RECURSIVE fbhAggregated(_, _, _)
fbhAggregated(st, results, k) ==
  IF k > Len(results) THEN st
  ELSE fbhAggregated(fbhAggregate(st, results[k]), results, k + 1)

fbhBest(results) ==
  fbhAggregated([bestScore |-> -fbhInf, secondScore |-> -fbhInf, bestMoves |-> <<>>],
                results, 1)

fbhPicksOf(agg) ==
  IF Len(agg.bestMoves) > 1 /\ agg.bestScore - agg.secondScore < 3
  THEN Range(agg.bestMoves)
  ELSE {agg.bestMoves[1]}

\* ------------------------------------------------------------------------
\* The root searches, step by step.  The board of the caller is Board, the
\* object CallerObj; every worker works on the object it cloned the board
\* into.  root = [pc, fn, player, depth, allowJump, ev, pre, jobs, results,
\* next, heap, wk] while a root search runs:
\*   pre      the board of the caller when the search was called
\*   jobs     the tasks still in the channel, results the scores so far
\*   next     the next free object, heap the boards of the objects
\*   wk       for each worker [pc, obj, job, undo]
\*   order    the jobs the main task published, in their order
\*   drained  how many results the loop over the results channel has taken
\*   closed   the results channel is closed
\* ------------------------------------------------------------------------
CallerObj == 0

RootWorkerIds == 1..RootWorkers

\* the address of the board a worker clones into: the next free object
newObject(next) == next

\* mutation of newObject: the worker works on the board of the caller
callerObject(next) == CallerObj

Deref(o) == IF o = CallerObj THEN Board ELSE root.heap[o]

rootFixed ==
  UNCHANGED <<CurrentPlayer, ScoreA, ScoreB, GameOver, Winner, plies, undos,
              descents, ttSalt, searches, calls, stores, selfplay, boardPool>>

NoResult == [mv |-> NoMove, score |-> 0]

\* the search starts its workers: n of them run, on the jobs in this order
Running(fn, player, depth, allowJump, ev, pre, order, n) ==
  [pc |-> "run", fn |-> fn, player |-> player, depth |-> depth,
   allowJump |-> allowJump, ev |-> ev, pre |-> pre,
   jobs |-> [k \in 1..Len(order) |-> [idx |-> k, mv |-> order[k]]],
   results |-> IF fn = "FindBestMoveAtDepth"
               THEN [k \in 1..Len(order) |-> NoResult] ELSE <<>>,
   order |-> order, drained |-> 0, closed |-> FALSE,
   next |-> 1,
   heap |-> [o \in RootWorkerIds |-> NewBoard],
   wk |-> [w \in RootWorkerIds |->
             [pc |-> IF w <= n THEN "new" ELSE "gone", obj |-> CallerObj,
              job |-> [idx |-> 0, mv |-> NoMove], undo |-> NoUndo]]]

\* the search returned (mv, found)
Returned(fn, player, depth, allowJump, ev, pre, found, mv, results, win) ==
  /\ last' = [op |-> fn, player |-> player, depth |-> depth,
              allowJump |-> allowJump, ev |-> ev, pre |-> pre, found |-> found,
              mv |-> mv, results |-> results, win |-> win]
  /\ root' = NoRoot

\* FindBestMoveAtDepth(Board, player, depth, allowJump) is called for the
\* side to move: it returns at once when there is no move, else it fills
\* taskChan
fbmStart(player, depth, allowJump, tasks) ==
  IF Len(tasks) = 0
  THEN Returned("FindBestMoveAtDepth", player, depth, allowJump,
                "EvaluateBitBoard", Board, FALSE, NoMove, <<>>, FALSE)
  ELSE /\ root' = Running("FindBestMoveAtDepth", player, depth, allowJump,
                          "EvaluateBitBoard", Board, tasks, RootWorkers)
       /\ last' = [op |-> "go", fn |-> "FindBestMoveAtDepth"]

FindBestMoveAtDepth ==
  /\ root = NoRoot
  /\ last = NoOp
  /\ \E player \in {CurrentPlayer} : \E depth \in 1..MaxRootDepth :
       \E allowJump \in BOOLEAN :
       fbmStart(player, depth, allowJump, fbmTasks(Board, player, allowJump))
  /\ UNCHANGED <<Board, ttTable>>
  /\ rootFixed

\* FindBestMoveAtDepthHybrid after step 7 left st = [b, scores] for moves
fbhGo(player, depth, allowJump, ev, moves, st) ==
  /\ Board' = st.b
  /\ root' = Running("FindBestMoveAtDepthHybrid", player, depth, allowJump, ev,
                     Board, fbhOrderOf(moves, st.scores),
                     IF Len(moves) < RootWorkers THEN Len(moves) ELSE RootWorkers)
  /\ last' = [op |-> "go", fn |-> "FindBestMoveAtDepthHybrid"]

\* after steps 1 to 6 left moves, b being the board findImmediateWinOnly left
fbhSearch(player, depth, allowJump, ev, b, moves) ==
  IF Len(moves) = 0
  THEN /\ Board' = b
       /\ Returned("FindBestMoveAtDepthHybrid", player, depth, allowJump, ev,
                   Board, FALSE, NoMove, <<>>, FALSE)
  ELSE fbhGo(player, depth, allowJump, ev, moves,
             fbhScoreLoop([b |-> b, scores |-> <<>>], moves, player, 1, Len(moves)))

\* after step 0, findImmediateWinOnly having returned w
fbhStart(player, depth, allowJump, ev, w) ==
  IF w.ok
  THEN /\ Board' = w.b
       /\ Returned("FindBestMoveAtDepthHybrid", player, depth, allowJump, ev,
                   Board, TRUE, w.mv, <<>>, TRUE)
  ELSE fbhSearch(player, depth, allowJump, ev, w.b, fbhMoves(w.b, player, allowJump))

\* FindBestMoveAtDepthHybrid(Board, player, depth, allowJump) is called, in
\* a build whose Evaluate is ev
FindBestMoveAtDepthHybrid ==
  /\ root = NoRoot
  /\ last = NoOp
  /\ \E player \in {CurrentPlayer} : \E depth \in 1..MaxRootDepth :
       \E allowJump \in BOOLEAN :
       \E ev \in Evaluators :
         fbhStart(player, depth, allowJump, ev, findImmediateWinOnly(Board, player))
  /\ UNCHANGED ttTable
  /\ rootFixed

\* a worker starts: localBoard := b.Clone(), or nb := cloneBoard(b)
WorkerClone(w) ==
  /\ root.pc = "run"
  /\ root.wk[w].pc = "new"
  /\ root' = [root EXCEPT
                !.wk[w].pc = "idle",
                !.wk[w].obj = newObject(root.next),
                !.next = @ + 1,
                !.heap = IF newObject(root.next) = CallerObj THEN @
                         ELSE [@ EXCEPT ![newObject(root.next)] =
                                 IF root.fn = "FindBestMoveAtDepth"
                                 THEN Clone(Board) ELSE cloneBoard(Board)]]
  /\ UNCHANGED <<Board, last, ttTable>>
  /\ rootFixed

\* the worker wrote board nb to its object o and is now at pc
WorkerAt(w, o, nb, pc, job, undo, jobs, results) ==
  /\ Board' = IF o = CallerObj THEN nb ELSE Board
  /\ root' = [root EXCEPT
                !.wk[w] = [pc |-> pc, obj |-> o, job |-> job, undo |-> undo],
                !.jobs = jobs,
                !.results = results,
                !.heap = IF o = CallerObj THEN @ ELSE [@ EXCEPT ![o] = nb]]

\* a worker takes the next job and makes its move on its board
WorkerMade(w, job, r) ==
  WorkerAt(w, root.wk[w].obj, r.b, "made", job, r.undo, Tail(root.jobs),
           root.results)

WorkerMake(w) ==
  /\ root.pc = "run"
  /\ root.wk[w].pc = "idle"
  /\ root.jobs # <<>>
  /\ WorkerMade(w, Head(root.jobs),
                mMakeMoveWithUndo(Deref(root.wk[w].obj), Head(root.jobs).mv,
                                  root.player))
  /\ UNCHANGED <<last, ttTable>>
  /\ rootFixed

\* the search below the move returned r; the worker unmakes the move and
\* hands in the score: results[t.idx] = ..., or results <- ...
WorkerScored(w, r) ==
  /\ ttTable' = r.tt
  /\ WorkerAt(w, root.wk[w].obj, UnmakeMove(r.b, root.wk[w].undo), "idle",
              root.wk[w].job, NoUndo, root.jobs,
              IF root.fn = "FindBestMoveAtDepth"
              THEN [root.results EXCEPT ![root.wk[w].job.idx] =
                      [mv |-> root.wk[w].job.mv, score |-> r.score]]
              ELSE Append(root.results,
                          [mv |-> root.wk[w].job.mv, score |-> r.score]))

WorkerSearch(w) ==
  /\ root.pc = "run"
  /\ root.wk[w].pc = "made"
  /\ WorkerScored(w,
       IF root.fn = "FindBestMoveAtDepth"
       THEN hybridAlphaBeta(Deref(root.wk[w].obj), ttTable, Opponent(root.player),
                            root.player, root.depth - 1, -1000000, 1000000,
                            root.allowJump, ttSalt)
       ELSE alphaBeta([ev |-> root.ev, nnA |-> FALSE, nnB |-> FALSE,
                       allowJump |-> TRUE, salt |-> ttSalt],
                      Deref(root.wk[w].obj), ttTable, Opponent(root.player),
                      root.player, root.depth - 1, -fbhInf, fbhInf))
  /\ UNCHANGED last
  /\ rootFixed

\* wg.Wait() returned: every worker found the channel closed and empty
RootDone ==
  /\ root.pc = "run"
  /\ root.jobs = <<>>
  /\ \A w \in RootWorkerIds : root.wk[w].pc \in {"idle", "gone"}

RootReturned(found, mv) ==
  Returned(root.fn, root.player, root.depth, root.allowJump, root.ev, root.pre,
           found, mv, root.results, FALSE)

\* mutation of RootClose: close(results) without wg.Wait()
RootCloseEarly ==
  /\ root.pc = "run"
  /\ root.fn = "FindBestMoveAtDepthHybrid"
  /\ ~root.closed
  /\ root' = [root EXCEPT !.closed = TRUE]
  /\ UNCHANGED <<Board, last, ttTable>>
  /\ rootFixed

\* go func() { wg.Wait(); close(results) }() of FindBestMoveAtDepthHybrid
RootClose ==
  /\ RootDone
  /\ root.fn = "FindBestMoveAtDepthHybrid"
  /\ ~root.closed
  /\ root' = [root EXCEPT !.closed = TRUE]
  /\ UNCHANGED <<Board, last, ttTable>>
  /\ rootFixed

\* one pass of for r := range results of FindBestMoveAtDepthHybrid: the main
\* task takes the next result out of the channel and folds it into
\* bestScore, secondScore and bestMoves
RootReceive ==
  /\ root.pc = "run"
  /\ root.fn = "FindBestMoveAtDepthHybrid"
  /\ root.drained < Len(root.results)
  /\ root' = [root EXCEPT !.drained = @ + 1]
  /\ UNCHANGED <<Board, last, ttTable>>
  /\ rootFixed

\* the main task is past its join: wg.Wait() of FindBestMoveAtDepth
\* returned, or the loop over the results of FindBestMoveAtDepthHybrid found
\* the channel closed and empty
RootJoined ==
  /\ root.pc = "run"
  /\ IF root.fn = "FindBestMoveAtDepth"
     THEN RootDone
     ELSE root.closed /\ root.drained = Len(root.results)

\* the root search picks its move and returns
RootReturn ==
  /\ RootJoined
  /\ IF root.fn = "FindBestMoveAtDepth"
     THEN \E mv \in fbmPicks(root.results) : RootReturned(TRUE, mv)
     ELSE IF Len(fbhBest(root.results).bestMoves) = 0
          THEN RootReturned(FALSE, NoMove)
          ELSE \E mv \in fbhPicksOf(fbhBest(root.results)) : RootReturned(TRUE, mv)
  /\ UNCHANGED <<Board, ttTable>>
  /\ rootFixed

NextRoot ==
  \/ FindBestMoveAtDepth
  \/ FindBestMoveAtDepthHybrid
  \/ \E w \in RootWorkerIds : WorkerClone(w)
  \/ \E w \in RootWorkerIds : WorkerMake(w)
  \/ \E w \in RootWorkerIds : WorkerSearch(w)
  \/ RootClose
  \/ RootReceive
  \/ RootReturn

\* ------------------------------------------------------------------------
\* Positions late in a game, PlayerA to move; the cells (-3,0) and (-4,0)
\* are Empty, PlayerB holds the cells that are not PlayerA's.
\* endA:     the clone (-3,1) -> (-3,0) is the one move of PlayerA after
\*           which PlayerB has no move
\* endJumpA: PlayerA has only jumps
\* endHalfA: PlayerA holds the half of the board around the Empty cells;
\*           once it clones into one, PlayerB cannot reach the other
\* ------------------------------------------------------------------------
endA == {<<-3, 1>>, <<-2, -2>>, <<-4, 2>>}

endJumpA == {<<-2, -2>>, <<-4, 2>>}

endHalfA == {c \in CoordSet : c[1] <= -1 \/ (c[1] = 0 /\ c[2] \in {-4, -3, -2, 0})}

endEmpty == {<<-3, 0>>, <<-4, 0>>}

EndCells(as) ==
  [i \in Cellx |->
     IF CoordOf[i] \in Range(centerBlocks) THEN Blocked
     ELSE IF CoordOf[i] \in endEmpty THEN Empty
     ELSE IF CoordOf[i] \in as THEN PlayerA
     ELSE PlayerB]

\* the board Board.set builds for these cells: the hash is the XOR of the
\* keys of the cells
EndBoardOf(cells) ==
  [NewBoard EXCEPT !.Cells = cells,
                   !.hash = UNION {zobKeyI(i, cells[i]) : i \in Cellx}]

\* the GameStates of the games that have come to these boards
EndGame == ngsResult(EndBoardOf(EndCells(endA)))

EndJumpGame == ngsResult(EndBoardOf(EndCells(endJumpA)))

EndHalfGame == ngsResult(EndBoardOf(EndCells(endHalfA)))

EndGames == {EndGame, EndJumpGame, EndHalfGame}

\* a position late in a game, PlayerA to move: the corners (-4,0) and (4,0)
\* are Empty, PlayerB holds the three cells around (-4,0), PlayerA the rest.
\* PlayerA can clone into (4,0); a jump into (-4,0) takes PlayerB's last
\* pieces.
gateEmpty == {<<-4, 0>>, <<4, 0>>}

gateB == {<<-3, 0>>, <<-4, 1>>, <<-3, -1>>}

GateCells ==
  [i \in Cellx |->
     IF CoordOf[i] \in Range(centerBlocks) THEN Blocked
     ELSE IF CoordOf[i] \in gateEmpty THEN Empty
     ELSE IF CoordOf[i] \in gateB THEN PlayerB
     ELSE PlayerA]

GateGame == ngsResult(EndBoardOf(GateCells))

\* a root search is called for the side to move, on the board of a new
\* game, of a game late in play, or of a game that has just ended
RootGames ==
  {NewGameState, EndGame, EndJumpGame, GateGame}
    \cup {g \in gwStep({EndGame, EndJumpGame}) : g.GameOver}

InitRoot == \E g \in RootGames : AtGame(g)

SpecRoot == InitRoot /\ [][NextRoot]_vars

\* ------------------------------------------------------------------------
\* The games that start late in play
\* ------------------------------------------------------------------------
InitEnd == \E g \in EndGames : AtGame(g)

NextEnd == GameMakeMove

SpecEnd == InitEnd /\ [][NextEnd]_vars

\* ------------------------------------------------------------------------
\* tt.go: ClearTT between the calls of storeTT and probeTT.  Each call is
\* made with the key ttKeyFor returns at the call, as the searches do; no
\* call is in progress when ClearTT is called.  stores holds the calls of
\* storeTT made so far, each with its number, position, side and salt.
\* ------------------------------------------------------------------------
\* the positions the table is asked about
ClearBoards == {g.Board : g \in {NewGameState, EndGame}}

\* storeTT(ttKeyFor(b, side), depth, score, flag) is called
CallStoreTT ==
  /\ Cardinality(stores) < ClearStores
  /\ \E b \in ClearBoards : \E side \in Players : \E a \in StoreArgs :
       /\ ttTable' = storeTT(ttTable, ttKeyFor(b, side, ttSalt), a.depth, a.score,
                             a.flag)
       /\ stores' = stores \cup {[n |-> Cardinality(stores) + 1, b |-> b,
                                  side |-> side, salt |-> ttSalt,
                                  key |-> ttKeyFor(b, side, ttSalt)]}
       /\ last' = [op |-> "storeTT", b |-> b, side |-> side]
  /\ UNCHANGED <<Board, ttSalt, searches>>
  /\ UNCHANGED <<CurrentPlayer, ScoreA, ScoreB, GameOver, Winner, plies, undos,
                 descents, calls, driverVars>>

\* probeTT(ttKeyFor(b, side), needDepth) is called
CallProbeTT ==
  /\ \E b \in ClearBoards : \E side \in Players : \E needDepth \in NeedDepths :
       last' = [op |-> "probeTT", b |-> b, side |-> side, needDepth |-> needDepth,
                hit |-> probeTT(ttTable, ttKeyFor(b, side, ttSalt), needDepth).hit]
  /\ UNCHANGED <<Board, ttTable, ttSalt, searches, stores>>
  /\ UNCHANGED <<CurrentPlayer, ScoreA, ScoreB, GameOver, Winner, plies, undos,
                 descents, calls, driverVars>>

NextClear ==
  \/ CallStoreTT
  \/ ClearTT
  \/ CallProbeTT

SpecClear == InitTT /\ [][NextClear]_vars

\* ------------------------------------------------------------------------
\* cmd/selfplay/main.go: the chunk writer and the self-play driver.
\* A file on disk is the number of records it holds; disk.X, disk.P, disk.Z
\* and disk.meta map a chunk number to that file of the chunk, and a chunk
\* number outside the domain is a file that does not exist.  A file handle
\* is "nil", "open" or "closed".  A batch of samples is its length.
\* ------------------------------------------------------------------------
\* the I/O operation of one writeSample call that fails, if any: the
\* os.Create calls of rotate and the three writes of writeSample
Faults == {"none", "createX", "createP", "createZ", "writeX", "writeP", "writeZ"}

NoFiles == [X |-> <<>>, P |-> <<>>, Z |-> <<>>, meta |-> <<>>]

\* newChunkWriter(outDir, chunkSize)
newChunkWriter(chunkSize) ==
  [chunkSize |-> chunkSize, idx |-> 0, count |-> 0,
   fx |-> "nil", fp |-> "nil", fz |-> "nil"]

\* file i is created (or truncated); n records are appended to file i
Created(f, i) == (i :> 0) @@ f

Appended(f, i) == [f EXCEPT ![i] = @ + 1]

\* chunkWriter.writeMeta: the meta file of the current chunk holds count
writeMeta(w, d) == [d EXCEPT !.meta = (w.idx :> w.count) @@ d.meta]

Closed(h) == IF h = "nil" THEN "nil" ELSE "closed"

\* chunkWriter.rotate: the chunk that was open is closed and gets its meta
\* file, then the three files of the next chunk are created, in the order X,
\* P, Z; a Create that fails leaves nil in its field and ends the call
rotCreateZ(w, d, fault) ==
  IF fault = "createZ"
    THEN [w |-> [w EXCEPT !.fz = "nil"], d |-> d, err |-> TRUE]
    ELSE [w |-> [w EXCEPT !.fz = "open"], d |-> [d EXCEPT !.Z = Created(@, w.idx)],
          err |-> FALSE]

rotCreateP(w, d, fault) ==
  IF fault = "createP"
    THEN [w |-> [w EXCEPT !.fp = "nil"], d |-> d, err |-> TRUE]
    ELSE rotCreateZ([w EXCEPT !.fp = "open"], [d EXCEPT !.P = Created(@, w.idx)],
                    fault)

rotCreateX(w, d, fault) ==
  IF fault = "createX"
    THEN [w |-> [w EXCEPT !.fx = "nil"], d |-> d, err |-> TRUE]
    ELSE rotCreateP([w EXCEPT !.fx = "open"], [d EXCEPT !.X = Created(@, w.idx)],
                    fault)

rotate(w, d, fault) ==
  rotCreateX([w EXCEPT !.idx = @ + 1, !.count = 0,
                       !.fx = Closed(@), !.fp = Closed(@), !.fz = Closed(@)],
             IF w.fx # "nil" THEN writeMeta(w, d) ELSE d, fault)

\* chunkWriter.writeSample: the three writes of one sample, in the order X,
\* P, Z, then count++; a write fails when the fault is at it or the file is
\* not open
wsWriteZ(w, d, fault) ==
  IF fault = "writeZ" \/ w.fz # "open"
    THEN [w |-> w, d |-> d, err |-> TRUE]
    ELSE [w |-> [w EXCEPT !.count = @ + 1], d |-> [d EXCEPT !.Z = Appended(@, w.idx)],
          err |-> FALSE]

wsWriteP(w, d, fault) ==
  IF fault = "writeP" \/ w.fp # "open"
    THEN [w |-> w, d |-> d, err |-> TRUE]
    ELSE wsWriteZ(w, [d EXCEPT !.P = Appended(@, w.idx)], fault)

wsWriteX(w, d, fault) ==
  IF fault = "writeX" \/ w.fx # "open"
    THEN [w |-> w, d |-> d, err |-> TRUE]
    ELSE wsWriteP(w, [d EXCEPT !.X = Appended(@, w.idx)], fault)

wsRotated(r, fault) == IF r.err THEN r ELSE wsWriteX(r.w, r.d, fault)

needRotateLate(w) == w.fx = "nil" \/ w.count > w.chunkSize

\* the condition of writeSample under which it rotates first
needRotate(w) == w.fx = "nil" \/ w.count >= w.chunkSize

writeSample(w, d, fault) ==
  IF needRotate(w) THEN wsRotated(rotate(w, d, fault), fault)
                   ELSE wsWriteX(w, d, fault)

\* chunkWriter.close: the files that were opened are closed, and the chunk
\* that holds samples gets its meta file
close(w, d) ==
  [w |-> [w EXCEPT !.fx = Closed(@), !.fp = Closed(@), !.fz = Closed(@)],
   d |-> IF w.count > 0 THEN writeMeta(w, d) ELSE d]

\* what playOneGame returns: no samples (ok = FALSE), or the samples of a
\* game, MinBatch..MaxBatch of them
GameResults == {0} \cup (MinBatch..MaxBatch)

\* main after the channels are made and the writer and the workers are
\* started: jobs has room for 2*workers jobs, samplesCh for workers batches
mainStarted(workers, numGames, chunkSize) ==
  [pc |-> "jobs", workers |-> workers, numGames |-> numGames, g |-> 0,
   jobs |-> <<>>, jobsClosed |-> FALSE,
   samplesCh |-> <<>>, samplesClosed |-> FALSE,
   wk |-> [i \in 1..workers |-> [pc |-> "range", samps |-> 0]],
   w |-> newChunkWriter(chunkSize), disk |-> NoFiles,
   wpc |-> "range", batch |-> 0, written |-> 0, failed |-> FALSE,
   writerDone |-> FALSE]

selfplayFixed == UNCHANGED <<gameVars, last, ttVars, root, boardPool>>

\* main: jobs <- g, which waits while jobs is full
MainSendJob ==
  /\ selfplay.pc = "jobs"
  /\ selfplay.g < selfplay.numGames
  /\ Len(selfplay.jobs) < 2 * selfplay.workers
  /\ selfplay' = [selfplay EXCEPT !.jobs = Append(@, selfplay.g), !.g = @ + 1]
  /\ selfplayFixed

\* main: close(jobs)
MainCloseJobs ==
  /\ selfplay.pc = "jobs"
  /\ selfplay.g >= selfplay.numGames
  /\ selfplay' = [selfplay EXCEPT !.jobsClosed = TRUE, !.pc = "wait"]
  /\ selfplayFixed

\* main: wg.Wait() returns when every worker has returned
MainWait ==
  /\ selfplay.pc = "wait"
  /\ \A i \in DOMAIN selfplay.wk : selfplay.wk[i].pc = "returned"
  /\ selfplay' = [selfplay EXCEPT !.pc = "closeSamples"]
  /\ selfplayFixed

\* main: close(samplesCh)
MainCloseSamples ==
  /\ selfplay.pc = "closeSamples"
  /\ selfplay' = [selfplay EXCEPT !.samplesClosed = TRUE, !.pc = "writerDone"]
  /\ selfplayFixed

\* main: <-writerDone, which waits until the writer has closed it
MainWriterDone ==
  /\ selfplay.pc = "writerDone"
  /\ selfplay.writerDone
  /\ selfplay' = [selfplay EXCEPT !.pc = "done"]
  /\ selfplayFixed

main ==
  \/ MainSendJob
  \/ MainCloseJobs
  \/ MainWait
  \/ MainCloseSamples
  \/ MainWriterDone

\* a game worker: for range jobs takes a job, or ends when jobs is closed
\* and empty (wg.Done)
WorkerRange(i) ==
  /\ selfplay.pc \notin {"off"}
  /\ i \in DOMAIN selfplay.wk
  /\ selfplay.wk[i].pc = "range"
  /\ \/ /\ selfplay.jobs # <<>>
        /\ selfplay' = [selfplay EXCEPT !.jobs = Tail(@), !.wk[i].pc = "play"]
     \/ /\ selfplay.jobs = <<>>
        /\ selfplay.jobsClosed
        /\ selfplay' = [selfplay EXCEPT !.wk[i].pc = "returned"]
  /\ selfplayFixed

\* a game worker: playOneGame returns; the samples are sent when there are any
WorkerPlay(i) ==
  /\ selfplay.pc \notin {"off"}
  /\ i \in DOMAIN selfplay.wk
  /\ selfplay.wk[i].pc = "play"
  /\ \E n \in GameResults :
       selfplay' = [selfplay EXCEPT !.wk[i] = IF n > 0
                                                 THEN [pc |-> "send", samps |-> n]
                                                 ELSE [pc |-> "range", samps |-> 0]]
  /\ selfplayFixed

\* a game worker: samplesCh <- samps, which waits while samplesCh is full
WorkerSend(i) ==
  /\ selfplay.pc \notin {"off"}
  /\ i \in DOMAIN selfplay.wk
  /\ selfplay.wk[i].pc = "send"
  /\ Len(selfplay.samplesCh) < selfplay.workers
  /\ selfplay' = [selfplay EXCEPT !.samplesCh = Append(@, selfplay.wk[i].samps),
                                  !.wk[i] = [pc |-> "range", samps |-> 0]]
  /\ selfplayFixed

worker(i) ==
  \/ WorkerRange(i)
  \/ WorkerPlay(i)
  \/ WorkerSend(i)

\* chunkWriter.run: for batch := range ch takes a batch
RunRange ==
  /\ selfplay.pc \notin {"off"}
  /\ selfplay.wpc = "range"
  /\ selfplay.samplesCh # <<>>
  /\ selfplay' = [selfplay EXCEPT !.samplesCh = Tail(@),
                                  !.batch = Head(selfplay.samplesCh),
                                  !.wpc = "batch"]
  /\ selfplayFixed

\* chunkWriter.run: writeSample for the next sample of the batch; an error
\* ends run, and the deferred close(done) closes writerDone
RunWritten(r) ==
  selfplay' =
    IF r.err
      THEN [selfplay EXCEPT !.w = r.w, !.disk = r.d, !.failed = TRUE,
                            !.wpc = "returned", !.writerDone = TRUE]
      ELSE [selfplay EXCEPT !.w = r.w, !.disk = r.d, !.written = @ + 1,
                            !.batch = @ - 1,
                            !.wpc = IF selfplay.batch = 1 THEN "range" ELSE "batch"]

RunWrite ==
  /\ selfplay.pc \notin {"off"}
  /\ selfplay.wpc = "batch"
  /\ \E fault \in Faults : RunWritten(writeSample(selfplay.w, selfplay.disk, fault))
  /\ selfplayFixed

\* chunkWriter.run: samplesCh is closed and empty, so the loop ends, w.close()
\* is called and the deferred close(done) closes writerDone
RunClosed(r) ==
  selfplay' = [selfplay EXCEPT !.w = r.w, !.disk = r.d, !.wpc = "returned",
                               !.writerDone = TRUE]

RunClose ==
  /\ selfplay.pc \notin {"off"}
  /\ selfplay.wpc = "range"
  /\ selfplay.samplesCh = <<>>
  /\ selfplay.samplesClosed
  /\ RunClosed(close(selfplay.w, selfplay.disk))
  /\ selfplayFixed

run ==
  \/ RunRange
  \/ RunWrite
  \/ RunClose

\* the flags of a run: -workers, -n and -chunk
InitSelfplay ==
  /\ Board = NewGameState.Board
  /\ CurrentPlayer = NewGameState.CurrentPlayer
  /\ ScoreA = NewGameState.ScoreA
  /\ ScoreB = NewGameState.ScoreB
  /\ GameOver = NewGameState.GameOver
  /\ Winner = NewGameState.Winner
  /\ plies = 0
  /\ undos = <<>>
  /\ descents = 0
  /\ last = NoOp
  /\ ttInit
  /\ root = NoRoot
  /\ boardPool = {}
  /\ \E workers \in 1..SpWorkers : \E numGames \in 0..SpGames :
       \E chunkSize \in 1..MaxChunk :
         selfplay = mainStarted(workers, numGames, chunkSize)

NextSelfplay ==
  \/ MainSendJob
  \/ MainCloseJobs
  \/ MainWait
  \/ MainCloseSamples
  \/ MainWriterDone
  \/ \E i \in 1..SpWorkers : WorkerRange(i)
  \/ \E i \in 1..SpWorkers : WorkerPlay(i)
  \/ \E i \in 1..SpWorkers : WorkerSend(i)
  \/ RunRange
  \/ RunWrite
  \/ RunClose

SpecSelfplay == InitSelfplay /\ [][NextSelfplay]_vars

\* the Go scheduler runs every goroutine that can take a step: main, each
\* game worker and the writer
SpecSelfplayFair ==
  /\ InitSelfplay
  /\ [][NextSelfplay]_vars
  /\ WF_vars(main)
  /\ \A i \in 1..SpWorkers : WF_vars(worker(i))
  /\ WF_vars(run)

\* ------------------------------------------------------------------------
\* GameState.MakeMove called with any move, legal or not: from a cell that
\* holds a piece of either side, a Blocked cell, the Empty centre (0,0) or a
\* coordinate off the board, to any cell or a coordinate off the board
\* ------------------------------------------------------------------------
OffBoard == <<boardRadius + 1, 0>>

AnyFroms(b) ==
  {c \in CoordSet : b.Cells[IndexOf[c]] \in Players} \cup {centerBlocks[1]}
    \cup {<<0, 0>>, OffBoard}

AnyMoves(b) == {Mv(f, t) : f \in AnyFroms(b), t \in CoordSet \cup {OffBoard}}

AnyMoved(r, m) ==
  /\ SetGS(r.gs)
  /\ last' = [op |-> "GameState.MakeMove", pre |-> Board, m |-> m,
              player |-> CurrentPlayer, infected |-> Len(r.infected),
              gs |-> GS, err |-> r.err]

GameMakeAnyMove ==
  /\ plies < AnyPlies
  /\ \E m \in AnyMoves(Board) : AnyMoved(GSMakeMove(GS, m), m)
  /\ plies' = plies + 1
  /\ UNCHANGED <<undos, descents>>
  /\ UNCHANGED <<ttVars, driverVars>>

\* the games that have just ended
OverGames == {g \in gwStep({EndGame, EndJumpGame}) : g.GameOver}

InitAny == \E g \in {NewGameState, EndGame} \cup OverGames : AtGame(g)

NextAny == GameMakeAnyMove

SpecAny == InitAny /\ [][NextAny]_vars

\* ------------------------------------------------------------------------
\* The moves and the searches of Spec, from the start of a game and from the
\* positions late in a game, where GameState.MakeMove ends the game
\* ------------------------------------------------------------------------
\* a position early in a game, after both sides have jumped twice towards
\* the centre: (-4,4) to (-2,2) to (0,1) and (-4,0) to (-2,-1) to (-1,0)
centreA == {<<0, 1>>, <<boardRadius, 0>>, <<0, -boardRadius>>}

centreB == {<<-1, 0>>, <<0, boardRadius>>, <<boardRadius, -boardRadius>>}

CentreCells ==
  [i \in Cellx |->
     IF CoordOf[i] \in Range(centerBlocks) THEN Blocked
     ELSE IF CoordOf[i] \in centreA THEN PlayerA
     ELSE IF CoordOf[i] \in centreB THEN PlayerB
     ELSE Empty]

CentreGame == ngsResult(EndBoardOf(CentreCells))

InitLate == \E g \in {NewGameState, CentreGame} \cup EndGames : AtGame(g)

SpecLate == InitLate /\ [][Next]_vars

\* ------------------------------------------------------------------------
\* ai.go: alphaBeta on two boards with the same cells and different
\* histories, each on an empty table.  The boards are those one move of
\* PlayerA into a game, and the other history is that of the same move with
\* another number of infected pieces: a piece of the mover beside the
\* destination may have been the mover's before, or infected by the move.
\* ------------------------------------------------------------------------
\* a position with PlayerA beside the centre and PlayerB two cells away
twinA == {<<-2, 0>>, <<-1, -1>>, <<boardRadius, 0>>, <<0, -boardRadius>>}

twinB == {<<0, 1>>, <<0, boardRadius>>, <<boardRadius, -boardRadius>>}

TwinCells ==
  [i \in Cellx |->
     IF CoordOf[i] \in Range(centerBlocks) THEN Blocked
     ELSE IF CoordOf[i] \in twinA THEN PlayerA
     ELSE IF CoordOf[i] \in twinB THEN PlayerB
     ELSE Empty]

TwinGame == ngsResult(EndBoardOf(TwinCells))

TwinGames ==
  {g \in gwStep({TwinGame, CentreGame}) : ~g.GameOver /\ g.Board.LastMover # Empty}

\* the pieces of the mover beside the destination of the last move, the
\* origin of a clone apart
InfectedMaybe(b) ==
  {k \in 1..Len(NeighI[IndexOf[b.LastMove.To]]) :
     /\ b.Cells[NeighI[IndexOf[b.LastMove.To]][k]] = b.LastMover
     /\ CoordOf[NeighI[IndexOf[b.LastMove.To]][k]] # b.LastMove.From}

\* the boards with the cells of b and the other histories of its last move
Twins(b) ==
  {[b EXCEPT !.LastInfect = n] : n \in 0..Cardinality(InfectedMaybe(b))}

TwinConfigs ==
  {[ev |-> ev, nnA |-> FALSE, nnB |-> FALSE, allowJump |-> aj, salt |-> ttSalt] :
     ev \in Evaluators, aj \in BOOLEAN}

\* the state after alphaBeta returned r on the board and t on the twin h
TwinSearched(r, t, cf, h, original, depth) ==
  /\ Board' = r.b
  /\ ttTable' = r.tt
  /\ last' = [op |-> "alphaBeta", ev |-> cf.ev, allowJump |-> cf.allowJump,
              current |-> CurrentPlayer, original |-> original, depth |-> depth,
              pre |-> Board, twin |-> h, score |-> r.score, twinScore |-> t.score]

\* alphaBeta(Board, hash, CurrentPlayer, original, depth, MinInt32, MaxInt32,
\* allowJump) is called on an empty table
CallAlphaBetaTwin ==
  /\ last = NoOp
  /\ ttTable = ttEmpty
  /\ \E cf \in TwinConfigs : \E original \in Players : \E depth \in 1..MaxABDepth :
       \E h \in Twins(Board) :
         TwinSearched(alphaBeta(cf, Board, ttEmpty, CurrentPlayer, original, depth,
                                MinInt32, MaxInt32),
                      alphaBeta(cf, h, ttEmpty, CurrentPlayer, original, depth,
                                MinInt32, MaxInt32),
                      cf, h, original, depth)
  /\ searches' = [total |-> searches.total + 1, sinceClear |-> searches.sinceClear + 1]
  /\ UNCHANGED ttSalt
  /\ searchFixed

InitTwin == \E g \in TwinGames : AtGame(g)

NextTwin == CallAlphaBetaTwin

SpecTwin == InitTwin /\ [][NextTwin]_vars

\* ------------------------------------------------------------------------
\* mcts.go: the playout of the Monte-Carlo search.  rand.Intn is a choice
\* among the candidates; one step of the model is one pass of the loop of
\* rollout, and the record last holds the locals of the call.
\* ------------------------------------------------------------------------
\* maxPlies as FindBestMoveMCTS passes it
rolloutPlies == 64

filterMovesForSide(b, side, rootPlayer, aiCanJump, moves) ==
  IF side # rootPlayer \/ aiCanJump THEN moves
  ELSE IF Len(SelectSeq(moves, IsClone)) > 0 THEN SelectSeq(moves, IsClone)
  ELSE moves

\* the jumps of rolloutPolicy that are kept: those that infect
rpKeeps(b, side, moves) ==
  LET infects(m) == ~(IsJump(m) /\ previewInfectedCount(b, m, side) = 0)
  IN SelectSeq(moves, infects)

\* cand of rolloutPolicy, of which one is returned; empty when ok is false
rpCand(b, side, mvs) ==
  IF Len(mvs) = 0 THEN <<>>
  ELSE IF Len(SelectSeq(mvs, IsClone)) > 0 THEN SelectSeq(mvs, IsClone)
  ELSE IF Len(rpKeeps(b, side, mvs)) > 0 THEN rpKeeps(b, side, mvs)
  ELSE mvs

rolloutPolicy(b, side, rootPlayer, aiCanJump) ==
  rpCand(b, side, filterMovesForSide(b, side, rootPlayer, aiCanJump,
                                     GenerateMoves(b, side)))

\* the result of rollout on the board it ends with
rolloutValue(b, rootPlayer) ==
  IF CountPieces(b, rootPlayer) > CountPieces(b, Opponent(rootPlayer)) THEN 1
  ELSE IF CountPieces(b, rootPlayer) < CountPieces(b, Opponent(rootPlayer)) THEN -1
  ELSE 0

rolloutFixed ==
  /\ gsFixed
  /\ UNCHANGED <<plies, undos, descents>>
  /\ UNCHANGED <<ttVars, driverVars>>

\* rollout(b, toMove, rootPlayer, aiCanJump, 64) is entered
RolloutStart ==
  /\ last = NoOp
  /\ \E toMove \in Players : \E rootPlayer \in Players : \E aiCanJump \in BOOLEAN :
       last' = [op |-> "rollout", pc |-> "loop", cur |-> toMove,
                rootPlayer |-> rootPlayer, canJump |-> aiCanJump, ply |-> 0,
                at |-> Board, mv |-> NoMove, made |-> Board, cumulative |-> TRUE,
                value |-> 0]
  /\ UNCHANGED Board
  /\ rolloutFixed

\* one pass of the loop with the move mv, r being what mMakeMoveWithUndo
\* returned: the move is made, canJump and cur are set, the move is unmade.
\* at is the position the move was chosen in, made the one it led to, and
\* cumulative tells whether at is the position the move before led to
rolloutPass(mv, r) ==
  /\ Board' = UnmakeMove(r.b, r.undo)
  /\ last' = [last EXCEPT
                !.ply = @ + 1,
                !.cur = Opponent(@),
                !.canJump = \/ @
                            \/ /\ r.b.LastMover = Opponent(last.rootPlayer)
                               /\ r.b.LastInfect > 0,
                !.at = Board, !.mv = mv, !.made = r.b,
                !.cumulative = (Board.Cells = last.made.Cells)]

RolloutPly ==
  /\ last.op = "rollout"
  /\ last.pc = "loop"
  /\ last.ply < rolloutPlies
  /\ \E mv \in Range(rolloutPolicy(Board, last.cur, last.rootPlayer, last.canJump)) :
       rolloutPass(mv, mMakeMoveWithUndo(Board, mv, last.cur))
  /\ rolloutFixed

\* the loop is left, at maxPlies or without a move, and rollout returns
RolloutReturn ==
  /\ last.op = "rollout"
  /\ last.pc = "loop"
  /\ \/ last.ply >= rolloutPlies
     \/ Len(rolloutPolicy(Board, last.cur, last.rootPlayer, last.canJump)) = 0
  /\ last' = [last EXCEPT !.pc = "done",
                          !.value = rolloutValue(Board, last.rootPlayer)]
  /\ UNCHANGED Board
  /\ rolloutFixed

InitRollout == \E g \in {NewGameState, CentreGame} \cup EndGames : AtGame(g)

NextRollout == RolloutStart \/ RolloutPly \/ RolloutReturn

SpecRollout == InitRollout /\ [][NextRollout]_vars

\* ------------------------------------------------------------------------
\* mcts.go: the tree search.  The tree is a function from the path of a
\* node (the moves from the root) to the node; valueSum is kept as a whole
\* number of units, unit of them making 1.0, and prior as a fraction.
\* ------------------------------------------------------------------------
RECURSIVE Gcd(_, _)
Gcd(a, b) == IF b = 0 THEN a ELSE Gcd(b, a % b)

AbsInt(x) == IF x < 0 THEN 0 - x ELSE x

SignInt(x) == IF x > 0 THEN 1 ELSE IF x < 0 THEN -1 ELSE 0

\* cPUCT as selectChild is called: 1.4
cPUCTNum == 7

cPUCTDen == 5

\* what sims becomes when neither sims nor timeBudget is given
defaultSims(fn) == IF fn = "FindBestMoveMCTS" THEN 2000 ELSE 800

\* newNode, mvs being the filtered moves; prior is set by the caller
nnNode(player, mvs) ==
  [playerToMove |-> player, unexpanded |-> mvs, visits |-> 0, valueSum |-> 0,
   terminal |-> Len(mvs) = 0, priorNum |-> 0, priorDen |-> 1]

newNode(b, player, rootPlayer, aiCanJump) ==
  nnNode(player, filterMovesForSide(b, player, rootPlayer, aiCanJump,
                                    GenerateMoves(b, player)))

\* n.children, as the paths of the children of the node at p
Children(tree, p) ==
  {q \in DOMAIN tree : Len(q) = Len(p) + 1 /\ SubSeq(q, 1, Len(p)) = p}

\* the sign of x - y * sqrt(n) for x, y >= 0 and n >= 1
scSqrt(x, y, n) == SignInt(x * x - y * y * n)

scReduced(x, y, n, g) == scSqrt(x \div g, y \div g, n)

\* the sign of an/ad + (cPUCT * cn/cd) * sqrt(n), ad and cd positive
scSign(an, ad, cn, cd, n) ==
  IF an >= 0 /\ cn >= 0 THEN (IF an = 0 /\ cn = 0 THEN 0 ELSE 1)
  ELSE IF an <= 0 /\ cn <= 0 THEN -1
  ELSE SignInt(an) * scReduced(cPUCTDen * AbsInt(an) * cd, cPUCTNum * AbsInt(cn) * ad, n,
                               Gcd(cPUCTDen * AbsInt(an) * cd, cPUCTNum * AbsInt(cn) * ad))

\* ch.q() as a fraction [n, d]
qOf(ch, unit) ==
  IF ch.visits = 0 THEN [n |-> 0, d |-> 1]
  ELSE [n |-> ch.valueSum \div Gcd(AbsInt(ch.valueSum), unit * ch.visits),
        d |-> (unit * ch.visits) \div Gcd(AbsInt(ch.valueSum), unit * ch.visits)]

\* ch.prior / (1 + ch.visits) as a fraction [n, d]
uOf(ch) ==
  [n |-> ch.priorNum \div Gcd(ch.priorNum, ch.priorDen * (1 + ch.visits)),
   d |-> (ch.priorDen * (1 + ch.visits)) \div Gcd(ch.priorNum, ch.priorDen * (1 + ch.visits))]

scFrac(qa, qb, ua, ub, n) ==
  scSign(qa.n * qb.d - qb.n * qa.d, qa.d * qb.d,
         ua.n * ub.d - ub.n * ua.d, ua.d * ub.d, n)

\* the sign of the score of the child a less the score of the child b in
\* selectChild, parentVisits being n
scoreCmp(a, b, unit, n) == scFrac(qOf(a, unit), qOf(b, unit), uOf(a), uOf(b), n)

\* selectChild: the children it may return.  The loop runs over a map, so
\* any child of the highest score may be met first and kept
selectChild(tree, p, unit) ==
  {q \in Children(tree, p) :
     \A o \in Children(tree, p) :
       scoreCmp(tree[o], tree[q], unit,
                IF tree[p].visits > 1 THEN tree[p].visits ELSE 1) <= 0}

\* rollout: what one pass of its loop makes of the locals st = [b, cur,
\* canJump], r being what mMakeMoveWithUndo returned
roMade(st, r, rootPlayer) ==
  [b |-> UnmakeMove(r.b, r.undo), cur |-> Opponent(st.cur),
   canJump |-> \/ st.canJump
               \/ r.b.LastMover = Opponent(rootPlayer) /\ r.b.LastInfect > 0]

roNext(st, rootPlayer) ==
  {roMade(st, mMakeMoveWithUndo(st.b, mv, st.cur), rootPlayer) :
     mv \in Range(rolloutPolicy(st.b, st.cur, rootPlayer, st.canJump))}

\* one pass from every way the playout may have gone: ro = [S, R], S the
\* locals of the playouts still in the loop and R the results of those that
\* left it for want of a move.  T holds, for the locals of each playout,
\* the board and the locals after the pass
roCollect(T, R, rootPlayer) ==
  [S |-> UNION {t.next : t \in T},
   R |-> R \cup {rolloutValue(t.b, rootPlayer) : t \in {x \in T : x.next = {}}}]

roPass(ro, rootPlayer) ==
  roCollect({[b |-> st.b, next |-> roNext(st, rootPlayer)] : st \in ro.S}, ro.R,
            rootPlayer)

\* the passes lo + 1 .. hi of the loop.  A pass is a function of ro, so
\* when the first half of the passes left ro as it was, h = ro, a second
\* half of the same length leaves it so too
RECURSIVE roRange(_, _, _, _)
roSecond(ro, h, mid, hi, rootPlayer, same) ==
  IF same /\ h = ro THEN h ELSE roRange(h, mid, hi, rootPlayer)

roRange(ro, lo, hi, rootPlayer) ==
  IF ~Ready(ro) \/ hi <= lo \/ ro.S = {} THEN ro
  ELSE IF hi = lo + 1 THEN roPass(ro, rootPlayer)
  ELSE roSecond(ro, roRange(ro, lo, (lo + hi) \div 2, rootPlayer),
                (lo + hi) \div 2, hi, rootPlayer,
                hi - (lo + hi) \div 2 = (lo + hi) \div 2 - lo)

roResults(ro, rootPlayer) ==
  ro.R \cup {rolloutValue(st.b, rootPlayer) : st \in ro.S}

\* rollout: the values it may return
rollout(b, toMove, rootPlayer, aiCanJump, maxPlies) ==
  roResults(roRange([S |-> {[b |-> b, cur |-> toMove, canJump |-> aiCanJump]},
                     R |-> {}], 0, maxPlies, rootPlayer),
            rootPlayer)

\* the outcomes of the predictor, [err, v]: ensureONNX failed, ortSess.Run
\* failed, or there is no error and v is int(vProb * 100.0)
NNValues == {0, 100}

NNFailed(err) == [err |-> err, v |-> 0]

NNValue(v) == [err |-> "", v |-> v]

\* onnx_infer.go: EvaluateNN3, nn being the outcome of the predictor
EvaluateNN3(b, me, nn) == IF nn.err # "" THEN 0 ELSE nn.v

\* float64(rootPrior[idx]) + 1e-6 for the policies of the predictor that
\* are tried, as fractions; NoPrior is rootPrior = nil
NoPrior == <<>>

NNPolicies ==
  {[idx \in 0..(GridSize * GridSize - 1) |-> [n |-> 1, d |-> 2 + (idx % 3)]]}

\* the Selection loop from the node at p with the board b: [b, p] where it
\* may end
RECURSIVE mctsSelect(_, _, _, _)
mctsSelect(tree, b, p, unit) ==
  IF ~tree[p].terminal /\ Len(tree[p].unexpanded) = 0 /\ Children(tree, p) # {}
  THEN UNION {mctsSelect(tree,
                         mMakeMoveWithUndo(b, q[Len(q)], tree[p].playerToMove).b,
                         q, unit) :
                q \in selectChild(tree, p, unit)}
  ELSE {[b |-> b, p |-> p]}

\* child.prior as Expansion sets it
childPrior(fn, child, atRoot, rootPrior, mv) ==
  IF fn = "FindBestMoveMCTSWithVisits" /\ atRoot /\ rootPrior # NoPrior
  THEN (IF AxialToIndex(mv.To) >= 0 /\ AxialToIndex(mv.To) < GridSize * GridSize
        THEN [child EXCEPT !.priorNum = rootPrior[AxialToIndex(mv.To)].n,
                           !.priorDen = rootPrior[AxialToIndex(mv.To)].d]
        ELSE [child EXCEPT !.priorNum = 1, !.priorDen = 1])
  ELSE IF Len(child.unexpanded) > 0
  THEN [child EXCEPT !.priorNum = 1, !.priorDen = Len(child.unexpanded)]
  ELSE [child EXCEPT !.priorNum = 1, !.priorDen = 1]

\* cur.children[mv] = child, the move being taken off cur.unexpanded
exAdd(tree, p, mv, b, child) ==
  [tree |-> [q \in DOMAIN tree \cup {Append(p, mv)} |->
               IF q = Append(p, mv) THEN child
               ELSE IF q = p
               THEN [tree[p] EXCEPT !.unexpanded = SubSeq(@, 1, Len(@) - 1)]
               ELSE tree[q]],
   b |-> b, p |-> Append(p, mv)]

exMade(fn, tree, p, mv, b, cf) ==
  exAdd(tree, p, mv, b,
        childPrior(fn, newNode(b, Opponent(tree[p].playerToMove), cf.player,
                               cf.aiCanJump),
                   p = <<>>, cf.rootPrior, mv))

\* Expansion at the node the selection ended in: [tree, b, p]
mctsExpand(fn, tree, sel, cf) ==
  IF ~tree[sel.p].terminal /\ Len(tree[sel.p].unexpanded) > 0
  THEN exMade(fn, tree, sel.p, tree[sel.p].unexpanded[Len(tree[sel.p].unexpanded)],
              mMakeMoveWithUndo(sel.b,
                                tree[sel.p].unexpanded[Len(tree[sel.p].unexpanded)],
                                tree[sel.p].playerToMove).b,
              cf)
  ELSE [tree |-> tree, b |-> sel.b, p |-> sel.p]

\* leafValue of FindBestMoveMCTSWithVisits in hundredths
nnLeaf(node, b, rootPlayer, nn) ==
  IF node.terminal THEN 100 * rolloutValue(b, rootPlayer)
  ELSE IF node.playerToMove # rootPlayer
  THEN (100 - EvaluateNN3(b, node.playerToMove, nn)) * 2 - 100
  ELSE EvaluateNN3(b, node.playerToMove, nn) * 2 - 100

\* the values the leaf may get, in units
leafValues(fn, node, b, cf, nn) ==
  IF fn = "FindBestMoveMCTS"
  THEN rollout(b, node.playerToMove, cf.player, cf.aiCanJump, rolloutPlies)
  ELSE {nnLeaf(node, b, cf.player, nn)}

IsPrefix(q, p) == Len(q) <= Len(p) /\ SubSeq(p, 1, Len(q)) = q

\* mutation of backup: the loop stops below the root
backupBelowRoot(tree, p, v, rootPlayer) ==
  [q \in DOMAIN tree |->
     IF IsPrefix(q, p) /\ q # <<>>
     THEN [tree[q] EXCEPT !.visits = @ + 1,
                          !.valueSum = IF tree[q].playerToMove = rootPlayer
                                       THEN @ + v ELSE @ - v]
     ELSE tree[q]]

\* Backup of v from the node at p to the root
backup(tree, p, v, rootPlayer) ==
  [q \in DOMAIN tree |->
     IF IsPrefix(q, p)
     THEN [tree[q] EXCEPT !.visits = @ + 1,
                          !.valueSum = IF tree[q].playerToMove = rootPlayer
                                       THEN @ + v ELSE @ - v]
     ELSE tree[q]]

\* the root children one of which is returned: the loop runs over a map
\* and keeps the first of the most visited
mostVisited(tree) ==
  {q \in Children(tree, <<>>) :
     \A o \in Children(tree, <<>>) : tree[o].visits <= tree[q].visits}

\* the outcomes of one call of the predictor: ensureONNX fails every time
\* once it has failed
nnOutcomes(cf) ==
  IF cf.nnUp THEN {NNValue(v) : v \in NNValues} \cup {NNFailed("Run")}
  ELSE {NNFailed("ensureONNX")}

\* the rest of one pass of the search loop, ex = [tree, b, p] being what
\* Expansion left: the leaf is evaluated and the value backed up.  leaf
\* records the evaluation
itBacked(fn, ex, cf, nn, v) ==
  [tree |-> backup(ex.tree, ex.p, v, cf.player),
   leaf |-> [b |-> ex.b, me |-> ex.tree[ex.p].playerToMove,
             terminal |-> ex.tree[ex.p].terminal, nn |-> nn, value |-> v]]

itEval(fn, ex, cf) ==
  UNION {{itBacked(fn, ex, cf, nn, v) :
            v \in leafValues(fn, ex.tree[ex.p], ex.b, cf, nn)} :
           nn \in IF fn = "FindBestMoveMCTS" THEN {NNFailed("unused")}
                 ELSE nnOutcomes(cf)}

\* what one pass of the search loop may make of the tree: [tree, leaf]
mctsIterate(fn, tree, rootBoard, cf) ==
  UNION {itEval(fn, mctsExpand(fn, tree, sel, cf), cf) :
           sel \in mctsSelect(tree, rootBoard, <<>>,
                              IF fn = "FindBestMoveMCTS" THEN 1 ELSE 100)}

\* what the function returns for the tree it has built
mctsReturned(tree) ==
  IF Children(tree, <<>>) = {} THEN {[ok |-> FALSE, move |-> NoMove]}
  ELSE {[ok |-> TRUE, move |-> q[1]] : q \in mostVisited(tree)}

\* the visit counts the loop of FindBestMoveMCTSWithVisits over root.children
\* may leave in visits[idx]: the loop runs over a map and every child
\* writes the entry of the cell its move goes to
visitsAt(tree, idx) ==
  {tree[q].visits : q \in {c \in Children(tree, <<>>) : AxialToIndex(c[1].To) = idx}}

\* the entries lo .. hi of the visits array, as sequences
RECURSIVE visitsRange(_, _, _)
visitsRange(tree, lo, hi) ==
  IF lo = hi
  THEN {<<v>> : v \in IF visitsAt(tree, lo) = {} THEN {0} ELSE visitsAt(tree, lo)}
  ELSE {x \o y : x \in visitsRange(tree, lo, (lo + hi) \div 2),
                 y \in visitsRange(tree, (lo + hi) \div 2 + 1, hi)}

\* the visits array the function returns, entry idx at place idx + 1: nil
\* when there is no root child, and FindBestMoveMCTS returns none
returnedVisits(fn, tree) ==
  IF fn = "FindBestMoveMCTS" \/ Children(tree, <<>>) = {} THEN {<<>>}
  ELSE visitsRange(tree, 0, GridSize * GridSize - 1)

\* the search configurations: the side, the jump gate and, for
\* FindBestMoveMCTSWithVisits, whether ensureONNX succeeds and the policy of
\* the predictor (PolicyValueNN may fail in ortSess.Run too)
mctsConfigs(fn) ==
  IF fn = "FindBestMoveMCTS"
  THEN {[player |-> pl, aiCanJump |-> aj, nnUp |-> FALSE, rootPrior |-> NoPrior] :
          pl \in Players, aj \in BOOLEAN}
  ELSE {c \in {[player |-> pl, aiCanJump |-> aj, nnUp |-> up, rootPrior |-> pr] :
                  pl \in Players, aj \in BOOLEAN, up \in BOOLEAN,
                  pr \in NNPolicies \cup {NoPrior}} :
          c.nnUp \/ c.rootPrior = NoPrior}

mctsFixed ==
  /\ UNCHANGED Board
  /\ rolloutFixed

\* the function fn is entered with sims and timeBudget and has built its
\* root.  time.Duration is 0 or positive here
mctsEntered(fn, cf, sims, timeBudget) ==
  last' = [op |-> fn, pc |-> "loop", cf |-> cf,
           sims |-> IF sims <= 0 /\ timeBudget <= 0 THEN defaultSims(fn) ELSE sims,
           timeBudget |-> timeBudget, iter |-> 0,
           tree |-> (<<>> :> newNode(Board, cf.player, cf.player, cf.aiCanJump)),
           leaf |-> NoOp, ok |-> FALSE, move |-> NoMove, visits |-> <<>>]

MctsInputs ==
  {x \in [sims : 0..MaxSims, timeBudget : 0..1] : x.sims > 0 \/ x.timeBudget > 0}

FindBestMoveMCTS ==
  /\ last = NoOp
  /\ \E cf \in mctsConfigs("FindBestMoveMCTS") : \E x \in MctsInputs :
       mctsEntered("FindBestMoveMCTS", cf, x.sims, x.timeBudget)
  /\ mctsFixed

FindBestMoveMCTSWithVisits ==
  /\ last = NoOp
  /\ \E cf \in mctsConfigs("FindBestMoveMCTSWithVisits") : \E x \in MctsInputs :
       mctsEntered("FindBestMoveMCTSWithVisits", cf, x.sims, x.timeBudget)
  /\ mctsFixed

InMcts == last.op \in {"FindBestMoveMCTS", "FindBestMoveMCTSWithVisits"}

\* one pass of the search loop: neither sims is reached nor, with a time
\* budget, the deadline passed
MctsIterate ==
  /\ InMcts
  /\ last.pc = "loop"
  /\ ~(last.sims > 0 /\ last.iter >= last.sims)
  /\ last.iter < MaxSims
  /\ \E r \in mctsIterate(last.op, last.tree, Board, last.cf) :
       last' = [last EXCEPT !.tree = r.tree, !.leaf = r.leaf, !.iter = @ + 1]
  /\ mctsFixed

\* the loop is left, sims being reached or the deadline found passed, and
\* the function returns
MctsReturn ==
  /\ InMcts
  /\ last.pc = "loop"
  /\ \/ last.sims > 0 /\ last.iter >= last.sims
     \/ last.timeBudget > 0
  /\ \E r \in mctsReturned(last.tree) : \E vs \in returnedVisits(last.op, last.tree) :
       last' = [last EXCEPT !.pc = "done", !.ok = r.ok, !.move = r.move,
                            !.visits = vs]
  /\ mctsFixed

InitMcts == \E g \in {NewGameState} \cup EndGames : AtGame(g)

NextMcts ==
  \/ FindBestMoveMCTS
  \/ FindBestMoveMCTSWithVisits
  \/ MctsIterate
  \/ MctsReturn

SpecMcts == InitMcts /\ [][NextMcts]_vars

\* the trees the search loop may have built after n more passes
RECURSIVE mctsLoop(_, _, _, _, _)
mctsLoop(fn, T, rootBoard, cf, n) ==
  IF n = 0 \/ ~Ready(T) THEN T
  ELSE mctsLoop(fn, UNION {{r.tree : r \in mctsIterate(fn, t, rootBoard, cf)} : t \in T},
                rootBoard, cf, n - 1)

\* what fn may return when called with sims > 0 and no time budget
mctsSearch(fn, rootBoard, cf, sims) ==
  UNION {mctsReturned(t) :
           t \in mctsLoop(fn, {<<>> :> newNode(rootBoard, cf.player, cf.player,
                                              cf.aiCanJump)},
                          rootBoard, cf, sims)}

\* ------------------------------------------------------------------------
\* cmd/selfplay/main.go: playOneGame.  The game variables are its state and
\* the record last holds its locals; raws keeps for every sample its side
\* and, for the properties, the CurrentPlayer of state when it was taken.
\* One step of the model is one move of addRandomOpening or one pass of the
\* loop of playOneGame.
\* ------------------------------------------------------------------------
maxMoves == 400

minMoves == 20

\* the plies of the opening: n = 2 moves of each side
openingPlies == 4

winnerValueSwapped(st) ==
  IF CountPieces(st.Board, PlayerA) > CountPieces(st.Board, PlayerB) THEN PlayerB
  ELSE IF CountPieces(st.Board, PlayerB) > CountPieces(st.Board, PlayerA) THEN PlayerA
  ELSE Empty

\* winnerValue
winnerValue(st) ==
  IF CountPieces(st.Board, PlayerA) > CountPieces(st.Board, PlayerB) THEN PlayerA
  ELSE IF CountPieces(st.Board, PlayerB) > CountPieces(st.Board, PlayerA) THEN PlayerB
  ELSE Empty

\* the value of a sample of side for the winner
sampleValue(winner, side) ==
  IF winner \in {PlayerA, PlayerB} THEN (IF winner = side THEN 1 ELSE -1) ELSE 0

\* what playOneGame returns for the samples raws and the final state st
finishedOf(raws, st) ==
  IF Len(raws) < minMoves THEN [ok |-> FALSE, finished |-> <<>>]
  ELSE [ok |-> TRUE,
        finished |-> [i \in 1..Len(raws) |->
                        [side |-> raws[i].side, cp |-> raws[i].cp,
                         value |-> sampleValue(winnerValue(st), raws[i].side)]]]

playFixed ==
  /\ UNCHANGED <<plies, undos, descents>>
  /\ UNCHANGED <<ttVars, driverVars>>

\* playOneGame(sims, r) is entered: state is a new game
PlayOneGame ==
  /\ last = NoOp
  /\ \E sims \in 1..MaxGameSims :
       last' = [op |-> "playOneGame", pc |-> "opening", sims |-> sims,
                player |-> PlayerA, k |-> 0, move |-> 0, raws |-> <<>>,
                ok |-> FALSE, finished |-> <<>>]
  /\ SetGS(NewGameState)
  /\ playFixed

\* the numbers r.Intn(n) is let return
Intn(n) == {x \in 0..(n - 1) : x < OpeningPicks}

\* one pass of the inner loop of addRandomOpening for the side pl with
\* its moves
aroMove(pl, moves) ==
  IF Len(moves) = 0 THEN UNCHANGED gameVars
  ELSE \E x \in Intn(Len(moves)) : SetGS(GSMakeMove(GS, moves[x + 1]).gs)

AddRandomOpening ==
  /\ last.op = "playOneGame"
  /\ last.pc = "opening"
  /\ aroMove(IF last.k % 2 = 0 THEN PlayerA ELSE PlayerB,
             GenerateMoves(Board, IF last.k % 2 = 0 THEN PlayerA ELSE PlayerB))
  /\ last' = [last EXCEPT !.k = @ + 1,
                          !.pc = IF last.k + 1 = openingPlies THEN "loop" ELSE @]
  /\ playFixed

\* the searches playOneGame may run on its state: the predictor is up or
\* down, allowJump is true
playSearch ==
  UNION {mctsSearch("FindBestMoveMCTSWithVisits", Board, cf, last.sims) :
           cf \in {c \in mctsConfigs("FindBestMoveMCTSWithVisits") :
                     c.player = last.player /\ c.aiCanJump}}

\* the rest of a pass of the loop for the move the search returned, r being
\* what state.MakeMove returned
playMoved(r) ==
  /\ SetGS(r.gs)
  /\ last' = [last EXCEPT
                !.raws = Append(@, [side |-> last.player, cp |-> CurrentPlayer]),
                !.pc = IF r.err \/ r.gs.GameOver THEN "end" ELSE @,
                !.player = IF r.err \/ r.gs.GameOver THEN @ ELSE Opponent(@),
                !.move = IF r.err \/ r.gs.GameOver THEN @ ELSE @ + 1]

PlayMove ==
  /\ last.op = "playOneGame"
  /\ last.pc = "loop"
  /\ last.move < maxMoves
  /\ \E s \in playSearch :
       IF ~s.ok
       THEN /\ last' = [last EXCEPT !.pc = "end"]
            /\ UNCHANGED gameVars
       ELSE playMoved(GSMakeMove(GS, s.move))
  /\ playFixed

\* the loop is left and the samples are given their values
playReturned(r) ==
  last' = [last EXCEPT !.pc = "done", !.ok = r.ok, !.finished = r.finished]

PlayReturn ==
  /\ last.op = "playOneGame"
  /\ \/ last.pc = "end"
     \/ last.pc = "loop" /\ last.move >= maxMoves
  /\ playReturned(finishedOf(last.raws, GS))
  /\ UNCHANGED gameVars
  /\ playFixed

InitPlay == AtGame(NewGameState)

NextPlay == PlayOneGame \/ AddRandomOpening \/ PlayMove \/ PlayReturn

SpecPlay == InitPlay /\ [][NextPlay]_vars

\* ------------------------------------------------------------------------
\* Properties of make / unmake, the bitboards, the hash and move generation
\* ------------------------------------------------------------------------
\* C1: a make (Move.MakeMove or mMakeMoveWithUndo) followed by
\* Board.UnmakeMove with the undo record of that make leaves Cells, bitA,
\* bitB, hash, LastMove, LastMover and LastInfect as they were before the make.
MakeUnmakeRestores ==
  last.op = "UnmakeMove" =>
    /\ Board.Cells = last.pre.Cells
    /\ Board.bitA = last.pre.bitA
    /\ Board.bitB = last.pre.bitB
    /\ Board.hash = last.pre.hash
    /\ Board.LastMove = last.pre.LastMove
    /\ Board.LastMover = last.pre.LastMover
    /\ Board.LastInfect = last.pre.LastInfect

\* C4: bitA and bitB are disjoint, and bit i of bitA (bitB) is set exactly
\* when Cells[i] is PlayerA (PlayerB), in every state reachable by
\* GameState.MakeMove, mMakeMoveWithUndo, UnmakeMove and Board.ApplyMove.
BitboardsMatchCells ==
  /\ Board.bitA \cap Board.bitB = {}
  /\ \A i \in Cellx : (i \in Board.bitA) <=> (Board.Cells[i] = PlayerA)
  /\ \A i \in Cellx : (i \in Board.bitB) <=> (Board.Cells[i] = PlayerB)

\* the XOR over the cells lo..hi of zobristCell[i][Cells[i]]
RECURSIVE CellXor(_, _, _)
CellXor(b, lo, hi) ==
  IF lo > hi THEN {}
  ELSE IF lo = hi THEN zobKeyI(lo, b.Cells[lo])
  ELSE Xor(CellXor(b, lo, (lo + hi) \div 2), CellXor(b, (lo + hi) \div 2 + 1, hi))

\* C5: Board.hash is the XOR over all 61 cells of zobristCell[i][Cells[i]],
\* with no side-to-move key mixed in, at every point of a game started with
\* NewGameState and advanced by make / unmake.
HashIsCellXor == Board.hash = CellXor(Board, 0, BoardN - 1)

\* the neighbours of cell to that hold the opponent of p on board b
Converted(b, to, p) == {nb \in Range(NeighI[to]) : b.Cells[nb] = Opponent(p)}

\* the effect of the move m of side p on the cells of board pre
MoveEffect(pre, b, m, p) ==
  /\ b.Cells[IndexOf[m.To]] = p
  /\ HexDist(m.From, m.To) = 1 => b.Cells[IndexOf[m.From]] = p
  /\ HexDist(m.From, m.To) = 2 => b.Cells[IndexOf[m.From]] = Empty
  /\ \A nb \in Converted(pre, IndexOf[m.To], p) : b.Cells[nb] = p
  /\ \A i \in Cellx \ ({IndexOf[m.From], IndexOf[m.To]}
                        \cup Converted(pre, IndexOf[m.To], p)) :
       b.Cells[i] = pre.Cells[i]
  /\ b.LastInfect = Cardinality(Converted(pre, IndexOf[m.To], p))

\* a legal move was just made, and the game did not end on it
MoveJustMade ==
  /\ last.op \in {"mMakeMoveWithUndo", "GameState.MakeMove", "ApplyMove"}
  /\ ~GameOver

\* C6: after a legal move m of side p, cell to holds p; cell from holds p
\* after a clone and is Empty after a jump; every neighbour of to that held
\* the opponent holds p; every other cell is unchanged; LastInfect is the
\* number of converted neighbours.
MoveEffectHolds ==
  MoveJustMade => MoveEffect(last.pre, Board, last.m, last.player)

\* C6 witness: a jump that converted a neighbour was just made in a search
MoveEffectWitness ==
  /\ last.op = "mMakeMoveWithUndo"
  /\ HexDist(last.m.From, last.m.To) = 2
  /\ Board.LastInfect > 0
  /\ Board.Cells[IndexOf[last.m.From]] = Empty

\* the legal moves of p on b, by enumeration of all pairs of cells
LegalMoves(b, p) ==
  {Mv(CoordOf[f], CoordOf[t]) : <<f, t>> \in
     {ft \in Cellx \X Cellx :
        /\ b.Cells[ft[1]] = p
        /\ b.Cells[ft[2]] = Empty
        /\ HexDist(CoordOf[ft[1]], CoordOf[ft[2]]) \in {1, 2}}}

NoDuplicates(ms) == \A j, k \in 1..Len(ms) : ms[j] = ms[k] => j = k

\* C7: GenerateMoves(b, p) returns exactly the legal moves of p, each once.
GenerateMovesExact ==
  last.op = "GenerateMoves" =>
    /\ Range(last.moves) = LegalMoves(Board, last.player)
    /\ NoDuplicates(last.moves)

\* C7 witness: GenerateMoves returned clones and jumps of PlayerB on a board
\* where PlayerA has moved
GenerateMovesWitness ==
  /\ last.op = "GenerateMoves"
  /\ last.player = PlayerB
  /\ Board.LastMover = PlayerA
  /\ \E j, k \in 1..Len(last.moves) : IsClone(last.moves[j]) /\ IsJump(last.moves[k])

\* the moves of the sequence out are moves of the sequence in, and out is
\* empty only if in is
FilterSound(in, out) ==
  /\ Range(out) \subseteq Range(in)
  /\ Len(in) > 0 => Len(out) > 0

\* C8: applyMoveFilters, and each stage it runs, returns a non-empty list
\* for a non-empty input, and only moves of its input.
FiltersNeverEmpty ==
  last.op = "applyMoveFilters" =>
    /\ FilterSound(last.in, last.out)
    /\ \A k \in 1..Len(last.stages) :
         FilterSound(last.stages[k].in, last.stages[k].out)

\* C8 witness: on a list of jumps only, with jumps not allowed,
\* filterJumpsByFlag fell back to its whole input, and a later stage removed
\* some moves and kept others
FiltersWitness ==
  /\ last.op = "applyMoveFilters"
  /\ ~last.allowJump
  /\ Len(last.in) > 0
  /\ \A k \in 1..Len(last.in) : IsJump(last.in[k])
  /\ last.stages[1].stage = "filterJumpsByFlag"
  /\ last.stages[1].out = last.in
  /\ \E k \in 2..Len(last.stages) :
       /\ Len(last.stages[k].out) > 0
       /\ Len(last.stages[k].out) < Len(last.stages[k].in)

\* C10: Evaluate(b, PlayerA) + Evaluate(b, PlayerB) = 0 for every board b.
EvaluateAntisymmetric == last.op = "Evaluate" => last.a + last.b = 0

\* C9: for the same board, player and depth, AlphaBeta on a table just
\* cleared and AlphaBetaNoTT return the same score.
SearchesAgree ==
  (last.op = "AlphaBeta" /\ last.fresh) =>
    last.score = AlphaBetaNoTT(last.ev, last.pre, last.player, last.depth).score

\* a probeTT call of worker w has returned a hit
ProbeHit(w) ==
  calls[w].pc = "done" /\ calls[w].op = "probeTT" /\ calls[w].hit

\* C2: under any interleaving of storeTT and probeTT calls, a probeTT hit
\* returns a score and a flag that one single storeTT call for the probed
\* key wrote together.
ProbeHitsAreWhole ==
  \A w \in Workers :
    ProbeHit(w) =>
      \E st \in stores :
        st.key = calls[w].key /\ st.score = calls[w].score /\ st.flag = calls[w].flag

\* C3: a probeTT(key, needDepth) hit returns only a score that a
\* storeTT(key, depth, ...) call with depth >= needDepth stored.
ProbeHitsAreDeepEnough ==
  \A w \in Workers :
    ProbeHit(w) =>
      \E st \in stores :
        st.key = calls[w].key /\ st.score = calls[w].score /\ st.depth >= calls[w].need

\* ------------------------------------------------------------------------
\* Properties of the evaluators
\* ------------------------------------------------------------------------
\* the boards two moves of PlayerA in a row leave: a move of the game from
\* the start, then a move of PlayerA in a search on that board (AlphaBeta
\* lets the opponent of its player move first)
HistoryBoards ==
  UNION {{mMakeMoveWithUndo(g.Board, m, PlayerA).b :
            m \in Range(GenerateMoves(g.Board, PlayerA))} :
         g \in {x \in GamesWithin(1) : ~x.GameOver}}

\* the evaluators return the same for side p on the boards b and h
SameEvaluation(b, h) ==
  \A ev \in Evaluators : \A p \in Players : Evaluate(ev, b, p) = Evaluate(ev, h, p)

\* C11: the static evaluator returns the same integer for two boards with
\* identical cell contents and the same side, whatever the move history
\* (LastMove, LastMover, LastInfect) that led to each board.
EvaluateIgnoresHistory ==
  (last.op = "mMakeMoveWithUndo" /\ last.player = PlayerA /\ plies = 1) =>
    \A h \in HistoryBoards : h.Cells = Board.Cells => SameEvaluation(Board, h)

\* C12: on every position reached by legal play from the initial position,
\* and for each side, the bitboard evaluator and the coordinate-based static
\* evaluator return the same value.
EvaluatorsAgree ==
  (last.op = "Evaluate" /\ last.ev = "evaluateStatic") =>
    /\ last.a = EvaluateBitBoard(Board, PlayerA)
    /\ last.b = EvaluateBitBoard(Board, PlayerB)

\* ------------------------------------------------------------------------
\* Properties of the root searches
\* ------------------------------------------------------------------------
RootFns == {"FindBestMoveAtDepth", "FindBestMoveAtDepthHybrid"}

\* a root search has returned after its workers searched the root moves
RootSearched == last.op \in RootFns /\ last.found /\ last.results # <<>>

BestScoreOf(results) ==
  CHOOSE s \in {r.score : r \in Range(results)} : \A r \in Range(results) : r.score <= s

BestOf(results) == {k \in 1..Len(results) : results[k].score = BestScoreOf(results)}

\* the best score leads every other score by at least 3
LeadsByThree(results) ==
  \A r \in Range(results) :
    r.score # BestScoreOf(results) => BestScoreOf(results) - r.score >= 3

\* C13: the move a root search returns has the maximum of the scores of
\* the searched root moves; the choice among the moves of that score is
\* random only when the best score leads the second-best by less than 3:
\* otherwise the first of them is returned.
RootReturnsBest ==
  RootSearched =>
    /\ \E k \in BestOf(last.results) : last.results[k].mv = last.mv
    /\ LeadsByThree(last.results) =>
         \A k \in BestOf(last.results) :
           (\A j \in BestOf(last.results) : k <= j) => last.results[k].mv = last.mv

\* the moves of p after which the opponent has no legal move
WinningMoves(b, p) ==
  {m \in Range(GenerateMoves(b, p)) :
     Len(GenerateMoves(mMakeMoveWithUndo(b, m, p).b, Opponent(p))) = 0}

\* the moves of the root after filtering
RootMoves(fn, b, p, allowJump) ==
  IF fn = "FindBestMoveAtDepth" THEN fbmTasks(b, p, allowJump)
  ELSE fbhMoves(b, p, allowJump)

ImmediateWinIsPlayed ==
  (/\ last.op = "FindBestMoveAtDepth"
   /\ last.depth = 1
   /\ Cardinality(WinningMoves(last.pre, last.player)) = 1) =>
    /\ findImmediateWinOnly(last.pre, last.player).ok
    /\ findImmediateWinOnly(last.pre, last.player).mv
         \in WinningMoves(last.pre, last.player)
    /\ last.found
    /\ last.mv = findImmediateWinOnly(last.pre, last.player).mv

\* the workers that hold a board
Holding == {w \in RootWorkerIds : root.wk[w].pc \in {"idle", "made"}}

\* C18: when a root search returns, the board of the caller is as it was
\* passed in (Cells, hash, bitboards, LastMove, LastMover, LastInfect); and
\* at no time do two workers make and unmake on the same Board object, nor
\* a worker on the board of the caller.
RootLeavesBoard ==
  /\ last.op \in RootFns => Board = last.pre
  /\ root.pc = "run" =>
       \A w \in Holding :
         /\ root.wk[w].obj # CallerObj
         /\ \A v \in Holding : v # w => root.wk[v].obj # root.wk[w].obj

\* C18 witness: both workers have made a move, each on its board
RootLeavesBoardWitness ==
  /\ root.pc = "run"
  /\ \A w \in RootWorkerIds : root.wk[w].pc = "made"

\* ------------------------------------------------------------------------
\* Properties of the end of a game
\* ------------------------------------------------------------------------
\* the board of the last GameState.MakeMove right after the move was made,
\* before the game is adjudicated
MovedBoard == MakeMove(last.m, last.pre, last.player).b

\* the opponent of the mover is left without a legal move while Empty cells remain
OpponentStuck(b, mover) ==
  /\ Len(GenerateMoves(b, Opponent(mover))) = 0
  /\ \E i \in Cellx : b.Cells[i] = Empty

MoreOf(b, p, q) ==
  Cardinality({i \in Cellx : b.Cells[i] = p}) > Cardinality({i \in Cellx : b.Cells[i] = q})

\* C16: when a GameState.MakeMove leaves the opponent with no legal move
\* while Empty cells remain, every Empty cell goes to the mover, GameOver
\* is true, and Winner is the side with strictly more pieces on the board,
\* Empty on a tie.
StuckOpponentEndsGame ==
  (last.op = "GameState.MakeMove" /\ OpponentStuck(MovedBoard, last.player)) =>
    /\ \A i \in Cellx :
         Board.Cells[i] = IF MovedBoard.Cells[i] = Empty THEN last.player
                          ELSE MovedBoard.Cells[i]
    /\ GameOver
    /\ MoreOf(Board, PlayerA, PlayerB) => Winner = PlayerA
    /\ MoreOf(Board, PlayerB, PlayerA) => Winner = PlayerB
    /\ (~MoreOf(Board, PlayerA, PlayerB) /\ ~MoreOf(Board, PlayerB, PlayerA)) =>
         Winner = Empty

\* C16 witness: PlayerA has left PlayerB without a move with an Empty cell
\* on the board; the cell is PlayerA's now, and PlayerB, with more pieces,
\* has won
StuckOpponentWitness ==
  /\ last.op = "GameState.MakeMove"
  /\ last.player = PlayerA
  /\ OpponentStuck(MovedBoard, PlayerA)
  /\ \A i \in Cellx : Board.Cells[i] # Empty
  /\ GameOver
  /\ Winner = PlayerB

\* ------------------------------------------------------------------------
\* Properties of ClearTT
\* ------------------------------------------------------------------------
\* the calls of storeTT for position b and side made under salt
StoredFor(b, side, salt) ==
  {st \in stores : st.b = b /\ st.side = side /\ st.salt = salt}

\* C17: after ClearTT, probeTT for a position and a side misses on every
\* entry stored before the ClearTT: it hits only once storeTT has been
\* called for that position and side since the last ClearTT.
ClearedEntriesMiss ==
  (last.op = "probeTT" /\ last.hit) => StoredFor(last.b, last.side, ttSalt) # {}

\* C17 witness: ClearTT was called, the table still holds an entry storeTT
\* wrote for the position and side before it, deep enough for the probe,
\* and probeTT has missed
ClearedEntriesWitness ==
  /\ last.op = "probeTT"
  /\ ~last.hit
  /\ ttSalt > 0
  /\ \E st \in stores :
       /\ st.b = last.b /\ st.side = last.side /\ st.salt < ttSalt
       /\ \E w \in 0..(ttWays - 1) :
            /\ ttTable[ttIndex(st.key)][w].key = st.key
            /\ ttTable[ttIndex(st.key)][w].depth >= last.needDepth

\* C20: with chunk size C >= 1, after n writeSample calls that all succeeded
\* and the close that follows them, the chunks on disk are 1..ceil(n/C); the
\* meta file of every chunk but the last says C samples and that of the last
\* says the rest, and the X, P and Z files of a chunk each hold as many
\* records as its meta file says.
WriterClosed ==
  /\ selfplay.wpc = "returned"
  /\ ~selfplay.failed

ChunksOf(n, C) == 1..((n + C - 1) \div C)

SamplesOf(k, n, C) == IF k * C <= n THEN C ELSE n - (k - 1) * C

ChunksAre(d, n, C) ==
  /\ DOMAIN d.meta = ChunksOf(n, C)
  /\ DOMAIN d.X = ChunksOf(n, C)
  /\ DOMAIN d.P = ChunksOf(n, C)
  /\ DOMAIN d.Z = ChunksOf(n, C)
  /\ \A k \in ChunksOf(n, C) :
       /\ d.meta[k] = SamplesOf(k, n, C)
       /\ d.X[k] = d.meta[k]
       /\ d.P[k] = d.meta[k]
       /\ d.Z[k] = d.meta[k]

DriverEnded ==
  /\ selfplay.pc = "done"
  /\ \A i \in DOMAIN selfplay.wk : selfplay.wk[i].pc = "returned"

WriterErrorStillEnds ==
  /\ [](selfplay.failed => (selfplay.wpc = "returned" /\ selfplay.writerDone))
  /\ selfplay.failed ~> DriverEnded

\* C24: GameState.MakeMove returns an error and leaves the board, the scores,
\* CurrentPlayer and GameOver as they were when the origin of the move does
\* not hold a piece of the current player, when its destination is not Empty,
\* or when one of its coordinates is off the board.
IllegalMove(b, m, player) ==
  \/ ~InIndex(m.From)
  \/ ~InIndex(m.To)
  \/ b.Cells[IndexOf[m.From]] # player
  \/ b.Cells[IndexOf[m.To]] # Empty

IllegalMovesRejected ==
  (last.op = "GameState.MakeMove" /\ IllegalMove(last.pre, last.m, last.player))
    => /\ last.err
       /\ GS = last.gs

\* C25: in every state of a game exactly the cells (1,0), (-1,1) and (0,-1)
\* are Blocked, whatever was made, unmade or adjudicated before.
BlockedCells(b) == {c \in CoordSet : b.Cells[IndexOf[c]] = Blocked}

BlockedCellsFixed == BlockedCells(Board) = {<<1, 0>>, <<-1, 1>>, <<0, -1>>}

\* GameState.MakeMove has ended a game by claiming the Empty cells that were
\* left, and the three cells are still Blocked
BlockedCellsWitness ==
  /\ last.op = "GameState.MakeMove"
  /\ GameOver
  /\ CountPieces(last.pre, Empty) > 1
  /\ CountPieces(Board, Empty) = 0
  /\ BlockedCells(Board) = {<<1, 0>>, <<-1, 1>>, <<0, -1>>}

\* C30: once a move of the game has infected a piece, infectionUnlocked holds
\* in every later position of the game, so filterOpeningEdgeOnly leaves the
\* moves of every later position as they are.
InfectionStaysUnlocked ==
  (last.op = "GameState.MakeMove" /\ last.ever) => infectionUnlocked(Board)

\* C29: alphaBeta, started on an empty table with the same side to move,
\* depth, window and allowJump, returns the same score on two boards with
\* the same cells, whatever their LastMove, LastMover and LastInfect are.
SearchIgnoresHistory ==
  (last.op = "alphaBeta" /\ last.twin.Cells = last.pre.Cells) =>
    last.score = last.twinScore

\* C28: the playout of rollout is cumulative, the move of each ply being
\* chosen in the position the move of the ply before led to, and rollout
\* returns the sign of the piece difference of rootPlayer in the position
\* its last move led to.
RolloutCumulative ==
  /\ (last.op = "rollout" /\ last.ply >= 2) => last.cumulative
  /\ (last.op = "rollout" /\ last.pc = "done") =>
       last.value = rolloutValue(last.made, last.rootPlayer)

\* C22: FindBestMoveMCTS called with sims >= 1 returns ok = false exactly
\* when the side has no legal move on the root board, and otherwise returns
\* the move of a root child that no other root child has more visits than.
MctsReturnsMostVisited ==
  (last.op = "FindBestMoveMCTS" /\ last.pc = "done" /\ last.sims >= 1) =>
    /\ ~last.ok <=> Len(GenerateMoves(Board, last.cf.player)) = 0
    /\ last.ok =>
         /\ <<last.move>> \in Children(last.tree, <<>>)
         /\ \A q \in Children(last.tree, <<>>) :
              last.tree[q].visits <= last.tree[<<last.move>>].visits

\* C23: when the predictor fails, in ensureONNX or in ortSess.Run, the leaf
\* evaluation of FindBestMoveMCTSWithVisits gets from EvaluateNN3 the
\* bitboard evaluation of the leaf position for the side to move, and a
\* search that ran with the predictor down returns a move when there is one.
NNFailureFallsBack ==
  /\ (/\ last.op = "FindBestMoveMCTSWithVisits"
      /\ last.leaf # NoOp
      /\ ~last.leaf.terminal
      /\ last.leaf.nn.err # "") =>
       EvaluateNN3(last.leaf.b, last.leaf.me, last.leaf.nn) =
         EvaluateBitBoard(last.leaf.b, last.leaf.me)
  /\ (/\ last.op = "FindBestMoveMCTSWithVisits"
      /\ last.pc = "done"
      /\ ~last.cf.nnUp
      /\ last.iter >= 1
      /\ Len(GenerateMoves(Board, last.cf.player)) > 0) => last.ok

\* C21: every sample playOneGame returns has the value +1, -1 or 0 as the
\* final board holds more, fewer or as many pieces of the sample's side as
\* of its opponent, and its side is the CurrentPlayer of the GameState at
\* the moment the sample was taken.
SamplesLabelled ==
  (last.op = "playOneGame" /\ last.pc = "done") =>
    \A i \in 1..Len(last.finished) :
      /\ last.finished[i].value =
           SignInt(CountPieces(Board, last.finished[i].side)
                   - CountPieces(Board, Opponent(last.finished[i].side)))
      /\ last.finished[i].side = last.finished[i].cp

SamplesWitness ==
  /\ last.op = "playOneGame"
  /\ last.pc = "done"
  /\ last.ok
  /\ GameOver
  /\ \E i \in 1..Len(last.finished) : last.finished[i].value = 1
  /\ \E i \in 1..Len(last.finished) : last.finished[i].value = -1

\* C26: with one storeTT in progress at a time and probeTT called at any
\* time, a probeTT hit returns the score and the flag of one storeTT call
\* for the probed key that has completed; an entry that is being written is
\* never accepted.
OneWriterHitsAreWhole ==
  \A w \in Readers :
    ProbeHit(w) =>
      \E o \in Writers :
        /\ calls[o].pc = "done"
        /\ calls[o].op = "storeTT"
        /\ calls[o].key = calls[w].key
        /\ calls[o].score = calls[w].score
        /\ calls[o].flag = calls[w].flag

\* ------------------------------------------------------------------------
\* The worker pool of the root searches.  Both job channels are made with
\* room for every job (make(chan task, len(moves)), make(chan Move,
\* len(order))) and so is the results channel of FindBestMoveAtDepthHybrid,
\* so no send waits; a worker leaves its loop when the job channel is
\* closed and empty.
\* ------------------------------------------------------------------------
\* how often job k waits in the channel, is in the hands of a worker, and
\* has its result handed in
jobsWaiting(k) ==
  Cardinality({i \in 1..Len(root.jobs) : root.jobs[i].idx = k})

jobsInHand(k) ==
  Cardinality({w \in RootWorkerIds :
                 root.wk[w].pc = "made" /\ root.wk[w].job.idx = k})

jobsScored(k) ==
  IF root.fn = "FindBestMoveAtDepth"
  THEN IF root.results[k].mv = root.order[k] THEN 1 ELSE 0
  ELSE Cardinality({i \in 1..Len(root.results) :
                      root.results[i].mv = root.order[k]})

\* every job is in one place: in the channel, with one worker, or scored
\* once
JobsTakenOnce ==
  root.pc = "run" =>
    /\ \A k \in 1..Len(root.order) :
         jobsWaiting(k) + jobsInHand(k) + jobsScored(k) = 1
    /\ root.fn = "FindBestMoveAtDepthHybrid"
         => Len(root.results) <= Len(root.order)
    /\ RootDone => \A k \in 1..Len(root.order) : jobsScored(k) = 1

\* the main task folds a result in, or sorts the results and picks
RootAggregates ==
  /\ root.pc = "run"
  /\ \/ root'.pc = "idle"
     \/ root'.pc = "run" /\ root'.drained # root.drained

\* the main task has its aggregate and returns
RootPicks == root.pc = "run" /\ root'.pc = "idle"

\* worker w can run: it has to clone, to search below the move it made, or
\* to take a job that waits in the channel (a receive from a channel that
\* is closed and empty ends its loop)
WorkerCanRun(w) ==
  /\ root.pc = "run"
  /\ \/ root.wk[w].pc \in {"new", "made"}
     \/ root.wk[w].pc = "idle" /\ root.jobs # <<>>

\* a step of worker w: WorkerClone(w), WorkerMake(w) or WorkerSearch(w)
WorkerRuns(w) ==
  /\ root.pc = "run"
  /\ root'.pc = "run"
  /\ root'.wk[w].pc # root.wk[w].pc

\* the scheduler: a goroutine that can run, does.  For a worker this is
\* weak fairness of its steps, WorkerCanRun(w) being what enables them (a
\* step of a worker waits for nothing but its guard); for the goroutine
\* that closes the results and for the main task it is weak fairness of
\* their steps.
RootFairness ==
  /\ \A w \in RootWorkerIds :
       ([]<>(~WorkerCanRun(w))) \/ ([]<><<WorkerRuns(w)>>_vars)
  /\ WF_vars(RootClose)
  /\ WF_vars(RootReceive \/ RootReturn)

SpecRootFair == SpecRoot /\ RootFairness

RootTerminates == (root.pc = "run") ~> (root.pc = "idle")

\* C27 as stated: every root move is taken by exactly one worker and gives
\* exactly one result, the main task aggregates only after every worker has
\* finished its jobs, and the search always terminates.
RootPoolAsClaimed ==
  /\ []JobsTakenOnce
  /\ [][RootAggregates => RootDone]_vars
  /\ RootTerminates

\* C27: every root move is taken by exactly one worker and gives exactly one
\* result, the main task has its aggregate and returns only after every
\* worker has finished its jobs (FindBestMoveAtDepthHybrid folds the results
\* in as they arrive, while workers still run), and the search always
\* terminates.
RootPoolJoins ==
  /\ []JobsTakenOnce
  /\ [][RootPicks => (RootDone /\ RootJoined)]_vars
  /\ RootTerminates

\* FindBestMoveAtDepthHybrid has drained the results of two or more jobs
\* from a closed channel
RootPoolWitness ==
  /\ root.pc = "run"
  /\ root.fn = "FindBestMoveAtDepthHybrid"
  /\ Len(root.order) >= 2
  /\ root.closed
  /\ root.drained = Len(root.order)

\* ------------------------------------------------------------------------
\* The jump gate at the root.
\* ------------------------------------------------------------------------
HasClone(b, p) == \E m \in Range(GenerateMoves(b, p)) : IsClone(m)

\* C31: with allowJump = false a root search returns a clone whenever the
\* side to move has a legal clone; it returns a jump only when the side has
\* no clone at all.
RootGateKeepsClones ==
  (/\ last.op \in RootFns
   /\ ~last.allowJump
   /\ last.found
   /\ HasClone(last.pre, last.player)) => IsClone(last.mv)

\* ------------------------------------------------------------------------
\* The move findImmediateWinOnly returns, played in the game.
\* ------------------------------------------------------------------------
\* the game g is over and p has won it with more pieces
WonBy(g, p) ==
  /\ g.GameOver
  /\ g.Winner = p
  /\ IF p = PlayerA THEN g.ScoreA > g.ScoreB ELSE g.ScoreB > g.ScoreA

\* C32: every move findImmediateWinOnly(b, p) returns ends the game with p
\* as the winner: after the move and the adjudication of GameState.MakeMove
\* p has strictly more pieces than the opponent.
ImmediateWinWins ==
  (/\ last.op = "FindBestMoveAtDepthHybrid"
   /\ last.win
   /\ ~GameOver) =>
    WonBy(GSMakeMove([GS EXCEPT !.Board = last.pre], last.mv).gs, last.player)

\* ------------------------------------------------------------------------
\* ai.go: alphaBeta at a node inside a search.  The node is reached with the
\* window its ancestors left and with the table the searches before left;
\* it is reached again by a later search, with another window or for the
\* other original player.
\* ------------------------------------------------------------------------
\* the bounds of a window: those of AlphaBeta, and a score of 0 that a
\* sibling returned
WindowEdges == {MinInt32, 0, MaxInt32}

Windows == {w \in [alpha : WindowEdges, beta : WindowEdges] : w.alpha < w.beta}

\* the moves of step 1 of alphaBeta, before the swap of step 4
abNodeMoves(cf, b, current) ==
  applyMoveFilters(b, current, GenerateMoves(b, current), cf.allowJump,
                   useNNOf(cf, current))

\* alphaBeta goes past its probe pr: no hit, or a hit that is not exact and
\* leaves the window open
abPastProbe(pr, current, original, alpha, beta) ==
  \/ ~pr.hit
  \/ /\ pr.flag = ttLower
     /\ (IF (IF current # original THEN -pr.score ELSE pr.score) > alpha
         THEN (IF current # original THEN -pr.score ELSE pr.score) ELSE alpha) < beta
  \/ /\ pr.flag = ttUpper
     /\ alpha < (IF (IF current # original THEN -pr.score ELSE pr.score) < beta
                 THEN (IF current # original THEN -pr.score ELSE pr.score) ELSE beta)

\* alphaBeta reaches its step 6, where it stores
abStores(pr, moves, current, original, depth, alpha, beta) ==
  /\ depth > 0
  /\ abPastProbe(pr, current, original, alpha, beta)
  /\ Len(moves) > 0

\* the state alphaBeta leaves at the node, r being what it returned
NodeSearched(r, cf, current, original, depth, w, key, moves) ==
  /\ Board' = r.b
  /\ ttTable' = r.tt
  /\ last' = [op |-> "node", ev |-> cf.ev, nn |-> cf.nnA, current |-> current,
              original |-> original, depth |-> depth, alpha |-> w.alpha,
              beta |-> w.beta, pre |-> Board, key |-> key, moves |-> moves,
              swapped |-> swapBest(moves, probeBestIdx(ttTable, key)),
              stored |-> abStores(probeTT(ttTable, key, depth), moves, current,
                                  original, depth, w.alpha, w.beta),
              before |-> probeTT(ttTable, key, depth),
              entry |-> probeTT(r.tt, key, depth),
              idx |-> probeBestIdx(r.tt, key),
              score |-> r.score]

NodeKeyed(cf, current, original, depth, w, key) ==
  NodeSearched(alphaBeta(cf, Board, ttTable, current, original, depth, w.alpha,
                         w.beta),
               cf, current, original, depth, w, key,
               abNodeMoves(cf, Board, current))

\* alphaBeta(Board, 0, current, original, depth, alpha, beta, true) is called
CallAlphaBetaNode ==
  /\ ~GameOver
  /\ searches.total < MaxSearches
  /\ \E cf \in SearchConfigs : \E current \in Players : \E original \in Players :
       \E depth \in 1..MaxABDepth : \E w \in Windows :
         NodeKeyed(cf, current, original, depth, w,
                   ttKeyFor(Board, current, cf.salt))
  /\ searches' = [total |-> searches.total + 1, sinceClear |-> searches.sinceClear + 1]
  /\ UNCHANGED ttSalt
  /\ searchFixed

NodeGames == {NewGameState, CentreGame, EndGame, EndJumpGame, GateGame}

InitNode == \E g \in NodeGames : AtGame(g)

NextNode == CallAlphaBetaNode

SpecNode == InitNode /\ [][NextNode]_vars

\* C33: the bestIdx stored for a node identifies, in the node's move list
\* as generated and filtered (before the swap), the move that achieved the
\* node's best score: the move at that index of the list the loop ran on.
BestIdxNamesBestMove ==
  (last.op = "node" /\ last.stored) =>
    /\ last.idx.ok
    /\ last.idx.idx < Len(last.moves)
    /\ last.moves[last.idx.idx + 1] = last.swapped[last.idx.idx + 1]

\* C34: once GameOver is true it stays true: every later GameState.MakeMove
\* returns an error and leaves the board, the scores, CurrentPlayer and
\* Winner unchanged.
GameOverIsFinal ==
  [][GameOver =>
       /\ GameOver'
       /\ last'.op = "GameState.MakeMove" => last'.err
       /\ UNCHANGED <<Board, CurrentPlayer, ScoreA, ScoreB, Winner>>]_vars

\* C34 witness: GameState.MakeMove was called on a game that was over, with
\* a move of a piece of the side to move to a cell beside it, and the game
\* is as it was
GameOverIsFinalWitness ==
  /\ last.op = "GameState.MakeMove"
  /\ last.gs.GameOver
  /\ last.err
  /\ InIndex(last.m.From) /\ InIndex(last.m.To)
  /\ last.pre.Cells[IndexOf[last.m.From]] = last.player
  /\ IsClone(last.m)
  /\ GS = last.gs

\* C35: in every game reached by GameState.MakeMove with legal moves,
\* whenever GameOver is false the CurrentPlayer has at least one legal move.
SideToMoveCanMove ==
  ~GameOver => Len(GenerateMoves(Board, CurrentPlayer)) > 0

\* C35 witness: late in a game a move was played, the game goes on and the
\* other side is to move
SideToMoveWitness ==
  /\ last.op = "GameState.MakeMove"
  /\ ~GameOver
  /\ CurrentPlayer = Opponent(last.player)
  /\ CountPieces(Board, Empty) <= 2
  /\ Len(GenerateMoves(Board, CurrentPlayer)) > 0

\* C36: for every child of the root, valueSum is the sum of the leaf values
\* backed up through it, each in the view of the root player, so that
\* q() = valueSum / visits is their mean: a pass of the search loop that
\* visits a root child adds its leaf value to the valueSum of the child.
RootChildQIsRootView ==
  [][(InMcts /\ last'.op = last.op /\ last'.iter = last.iter + 1) =>
       \A q \in Children(last'.tree, <<>>) :
         IF q \in DOMAIN last.tree
         THEN last'.tree[q].visits = last.tree[q].visits + 1 =>
                last'.tree[q].valueSum = last.tree[q].valueSum + last'.leaf.value
         ELSE last'.tree[q].valueSum = last'.leaf.value]_vars

\* the search configuration of the node search last recorded
nodeCf ==
  [ev |-> last.ev, nnA |-> last.nn, nnB |-> last.nn, allowJump |-> TRUE,
   salt |-> ttSalt]

\* the minimax value of the node at b in the view of the side to move there:
\* what alphaBeta returns for that side as original player on the full
\* window and an empty table
nodeValue(cf, b, current, depth) ==
  alphaBeta(cf, b, ttEmpty, current, current, depth, MinInt32, MaxInt32).score

\* the pair (score, flag) of an entry bounds the value v
ttBounds(score, flag, v) ==
  /\ flag = ttExact => v = score
  /\ flag = ttLower => v >= score
  /\ flag = ttUpper => v <= score

\* C37: the (score, flag) pair of every entry of the table is a valid bound
\* on the minimax value of its node in the view of the side to move at the
\* node, whichever side was the original player of the search that stored
\* it.
EntriesBoundNodeValue ==
  (last.op = "node" /\ last.stored /\ last.entry.hit) =>
    ttBounds(last.entry.score, last.entry.flag,
             nodeValue(nodeCf, last.pre, last.current, last.depth))

\* the board of the node at p: the moves of p made on the root board, each
\* by the side to move at the node it leaves
RECURSIVE nodeBoard(_, _, _, _)
nodeBoard(tree, b, p, i) ==
  IF i > Len(p) THEN b
  ELSE nodeBoard(tree,
                 mMakeMoveWithUndo(b, p[i], tree[SubSeq(p, 1, i - 1)].playerToMove).b,
                 p, i + 1)

\* the sum of the visits of the nodes at the paths of Q
RECURSIVE visitsOf(_, _)
visitsOf(tree, Q) ==
  IF Q = {} THEN 0
  ELSE tree[CHOOSE q \in Q : TRUE].visits
       + visitsOf(tree, Q \ {CHOOSE q \in Q : TRUE})

\* the moves that are keys of n.children for the node at p
childMoves(tree, p) == {q[Len(q)] : q \in Children(tree, p)}

\* the filtered legal moves of the node at p, as newNode computes them
nodeMoves(tree, b, p, cf) ==
  filterMovesForSide(nodeBoard(tree, b, p, 1), tree[p].playerToMove, cf.player,
                     cf.aiCanJump,
                     GenerateMoves(nodeBoard(tree, b, p, 1), tree[p].playerToMove))

\* C38: after any number of passes of the search loop the visits of the root
\* are the number of passes; every node that is not terminal has as many
\* visits as its children together, and one more when it is not the root;
\* every filtered legal move of a node is in its unexpanded list or a key of
\* its children, and never both.
MctsCountsAddUp ==
  InMcts =>
    /\ last.tree[<<>>].visits = last.iter
    /\ \A p \in DOMAIN last.tree :
         /\ ~last.tree[p].terminal =>
              last.tree[p].visits =
                (IF p = <<>> THEN 0 ELSE 1) + visitsOf(last.tree, Children(last.tree, p))
         /\ Range(nodeMoves(last.tree, Board, p, last.cf)) =
              Range(last.tree[p].unexpanded) \cup childMoves(last.tree, p)
         /\ Range(last.tree[p].unexpanded) \cap childMoves(last.tree, p) = {}

\* C38 witness: a search has run several passes, through a child of the root
\* that has a child of its own, and a node holds both moves that are
\* expanded and moves that are not
MctsCountsWitness ==
  /\ InMcts
  /\ last.iter >= 3
  /\ \E p \in DOMAIN last.tree :
       /\ Len(p) = 2
       /\ last.tree[SubSeq(p, 1, 1)].visits >= 2
       /\ Len(last.tree[SubSeq(p, 1, 1)].unexpanded) > 0

\* the sum of the numbers of the sequence s
RECURSIVE sumSeq(_, _, _)
sumSeq(s, lo, hi) ==
  IF lo > hi THEN 0
  ELSE IF lo = hi THEN s[lo]
  ELSE sumSeq(s, lo, (lo + hi) \div 2) + sumSeq(s, (lo + hi) \div 2 + 1, hi)

\* C39: the visits array FindBestMoveMCTSWithVisits returns accounts for
\* every root child: its 81 entries add up to the visits of the root
\* children together, also when root moves share a destination cell.
VisitsArrayCountsAll ==
  (last.op = "FindBestMoveMCTSWithVisits" /\ last.pc = "done" /\ last.ok) =>
    /\ Len(last.visits) = GridSize * GridSize
    /\ sumSeq(last.visits, 1, Len(last.visits)) =
         visitsOf(last.tree, Children(last.tree, <<>>))

\* ------------------------------------------------------------------------
\* board.go, ai.go: the pool of boards.  FindBestMoveAtDepth at depth 1 with
\* the network on takes a board from the pool for every move and puts it
\* back; Board.Clone takes its board from the pool.
\* ------------------------------------------------------------------------
\* the sets of at most k members of U
RECURSIVE subsetsUpTo(_, _)
subsetsUpTo(U, k) ==
  IF k = 0 THEN {{}}
  ELSE subsetsUpTo(U, k - 1)
       \cup {S \cup {x} : S \in subsetsUpTo(U, k - 1), x \in U}

\* the pool after the boards of put were put into it: a sync.Pool may drop
\* any board it holds at any time
poolAfter(pool, put) == subsetsUpTo(pool \cup put, MaxPool)

\* ai.go 95-99: the board of the batch for the move mv, o being what
\* boardPool.Get returned
batchBoard(b, o, mv, player) ==
  ApplyMove([acquireBoard(o) EXCEPT !.Cells = b.Cells, !.bitA = b.bitA,
                                    !.bitB = b.bitB],
            mv, player)

\* the boards releaseBoard puts back after the batch
batchBoards(b, pool, moves, player) ==
  {batchBoard(b, o, mv, player) : o \in poolGet(pool), mv \in Range(moves)}

fbmBatch(moves, player, allowJump) ==
  /\ Len(moves) > 0
  /\ \E P \in poolAfter(boardPool, batchBoards(Board, boardPool, moves, player)) :
       boardPool' = P
  /\ \E mv \in Range(moves) :
       last' = [op |-> "batch", player |-> player, allowJump |-> allowJump,
                pre |-> Board, found |-> TRUE, mv |-> mv]

\* FindBestMoveAtDepth(Board, player, 1, allowJump) with the network on and
\* KataBatchValueScore returning no error: the move of the highest score, the
\* scores being those of the network, is any of the moves
FindBestMoveBatch ==
  /\ ~GameOver
  /\ \E allowJump \in BOOLEAN :
       fbmBatch(applyMoveFilters(Board, CurrentPlayer,
                                 GenerateMoves(Board, CurrentPlayer), allowJump, TRUE),
                CurrentPlayer, allowJump)
  /\ UNCHANGED <<gameVars, ttVars, root, selfplay>>

\* Board.Clone is called on the board of the game (mcts.go 157, render.go
\* 407): o is what boardPool.Get returned
BoardClone ==
  /\ \E o \in poolGet(boardPool) :
       /\ last' = [op |-> "Board.Clone", b |-> Board, got |-> o,
                   nb |-> cloneOnto(Board, acquireBoard(o))]
       /\ \E P \in poolAfter(boardPool \ {o}, {}) : boardPool' = P
  /\ UNCHANGED <<gameVars, ttVars, root, selfplay>>

InitClone == \E g \in EndGames \cup {GateGame} : AtGame(g)

NextClone ==
  \/ GameMakeMove
  \/ FindBestMoveBatch
  \/ BoardClone

SpecClone == InitClone /\ [][NextClone]_vars

\* C40: Board.Clone returns a board equal to its receiver in Cells, hash,
\* bitA, bitB, LastMove, LastMover and LastInfect, also when the board it
\* returns was taken from the pool after another position had been stored
\* in it.
CloneEqualsReceiver ==
  last.op = "Board.Clone" =>
    /\ last.nb.Cells = last.b.Cells
    /\ last.nb.hash = last.b.hash
    /\ last.nb.bitA = last.b.bitA
    /\ last.nb.bitB = last.b.bitB
    /\ last.nb.LastMove = last.b.LastMove
    /\ last.nb.LastMover = last.b.LastMover
    /\ last.nb.LastInfect = last.b.LastInfect

====
